---------------------------- MODULE Spec2Model ----------------------------
(***************************************************************************)
(* Model of the ComfyUI package system (richowen/ComfyUIforRunPod).        *)
(*                                                                         *)
(* Spec        : the package-assembly run, example.create_package calling  *)
(*               InteractivePackageCreator.create_package                  *)
(*               (src/example.py, src/scripts/interactive_package_creator) *)
(* SpecResolve : WorkflowParser._resolve_model_path                        *)
(*               (src/scripts/workflow_parser.py)                          *)
(* SpecClassify: the classification and resolution of a node's widget      *)
(*               values in WorkflowParser.parse_workflow                   *)
(*               (src/scripts/workflow_parser.py)                          *)
(* SpecLive    : Spec with the run scheduled until it ends                 *)
(* SpecCopy    : InteractivePackageCreator._copy_tree_filtered on one      *)
(*               plugin folder                                             *)
(* SpecReqs    : RequirementsCollector over the plugin loop, and the       *)
(*               dependencies key of config.json                           *)
(* SpecExtract : the harvest of model references from the widget values    *)
(*               in the simplified WorkflowParser.parse_workflow           *)
(* SpecPlugins : WorkflowParser._get_custom_node_packages and the plugin   *)
(*               resolution of parse_workflow                              *)
(*               (src/scripts/simplified_workflow_parser.py)               *)
(* SpecPaths   : WorkflowParser._load_model_paths and                      *)
(*               InteractivePackageCreator._get_model_search_paths over    *)
(*               one extra_model_paths.yaml                                *)
(* SpecDownload: ModelDownloader.download_model, download_with_requests and *)
(*               download_with_urllib for one manifest entry, invoked      *)
(*               repeatedly (src/scripts/model_downloader.py)              *)
(* SpecDownloadLive: SpecDownload with every started invocation scheduled  *)
(* SpecWorkers : ModelDownloader.download_models_from_config with          *)
(*               max_workers > 1: process_model run by the threads of the  *)
(*               executor                                                  *)
(* SpecGuess   : WorkflowParser._guess_model_type over node types made of  *)
(*               a few words                                               *)
(* SpecNodes   : the loop over the node array in the simplified            *)
(*               WorkflowParser.parse_workflow, with elements of any shape *)
(* SpecDest    : the destination create_package computes for a model and   *)
(*               the one process_model computes from the manifest entry    *)
(***************************************************************************)
EXTENDS Integers, Sequences, FiniteSets, TLC

VARIABLES
    \* ---- the package-assembly run (Spec) ----
    pc,                     \* position of the run
    pkgDirExists,           \* os.path.exists(temp_dir)
    custom_node_ids,        \* plugin identifiers harvested by parse_workflow
    models_to_process,      \* per type, the (name, path) pairs still to process
    rootState,              \* the ComfyUI directory: "ok", "missing", "unreadable"
    workflowExists,         \* os.path.exists(workflow_path)
    managerInstalled,       \* custom_nodes/ComfyUI-Manager exists
    include_manager,        \* argument of create_package
    outDirTouched,          \* os.makedirs(output_dir) has run
    pkgTree,                \* files below temp_dir (the package directory)
    archive,                \* the ZIP file has been written
    result,                 \* return value of create_package
    catalog,                \* workflow_parser.custom_node_packages (ids known)
    model_references,       \* dependencies['model_references']
    pluginQueue,            \* dependencies['custom_nodes'] still to copy
    custom_nodes_processed, \* list for installation_order
    discoverQueue,          \* model references still to classify and locate
    models_by_type,         \* result of _interactive_model_discovery
    models_processed,       \* included_models
    external_models,        \* external_models
    manifest,               \* config.json as written, or NoManifest
    copyDone,               \* artifacts whose copy call returned normally
    copyFailed,             \* artifacts whose copy call raised
    consulted,              \* per reference: times the oversized prompt was shown
    answers,                \* per reference: what the caller answered to it
    phaseLog,               \* phases entered, in order
    \* ---- the model path resolver (SpecResolve) ----
    model_paths,            \* WorkflowParser.model_paths: type -> base directories
    fs,                     \* the files on disk below the base directories
    enumReversed,           \* which of two orders os.listdir / os.walk enumerate in
    reqType,                \* model_type of the current request
    reqName,                \* model_name of the current request
    resolveCount,           \* calls of _resolve_model_path for the request so far
    firstResult,            \* what the first call returned
    lastResult,             \* what the latest call returned
    nodes_structure,        \* what parse_workflow made of the document's shape
    parse_report,           \* what parse_workflow printed about the document
    requirements_collector, \* the RequirementsCollector of line 307, if created
    \* ---- the plugin catalog and plugin resolution (SpecPlugins) ----
    installed,              \* os.listdir(custom_nodes): the plugin folders, in order
    metadata_ids,           \* per folder: ids its metadata files declare
    source_ids,             \* per folder: ids its Python sources declare
    scanQueue,              \* folders _get_custom_node_packages has yet to visit
    custom_node_packages,   \* the catalog: (key, folder) pairs in insertion order
    raw_node_id,            \* the identifier as the workflow carries it
    via,                    \* how it was resolved: "exact", "fuzzy", "none"
    resolved_to,            \* the folder it was resolved to
    \* ---- classification in workflow_parser.parse_workflow (SpecClassify) ----
    cls_pc,                 \* position in parse_workflow for the node
    node_type,              \* node.get('type', '') as the workflow carries it
    widgets_values,         \* node['widgets_values']
    value_idx,              \* index of the next widget value, from 0
    model_type,             \* the local model_type of the node's iteration
    found_models,           \* found_models as (type, value) pairs
    labelled,               \* per value processed: the types it was filed under
    resolved_models,        \* result['models'] as (type, value, path) triples
    \* ---- _copy_tree_filtered on one plugin folder (SpecCopy) ----
    copy_pc,                \* position in _copy_tree_filtered
    src_tree,               \* the files below src
    walk_stack,             \* the directories os.walk has still to yield
    cur_root,               \* the directory os.walk yielded last
    cur_files,              \* the files of it not yet looked at
    dst_tree,               \* the files below dst
    copy_warned,            \* the files whose copy raised an error that was logged
    \* ---- the RequirementsCollector over the plugin loop (SpecReqs) ----
    req_pc,                 \* position in the plugin loop and the manifest code
    req_plugins,            \* dependencies['custom_nodes'], with what each folder
                            \* holds and whether its copy returns
    requirements,           \* RequirementsCollector.requirements
    processed_files,        \* RequirementsCollector.processed_files
    times_read,             \* how often each requirements file was opened
    req_next,               \* the index of the next plugin of the loop
    package_config,         \* the dependencies key of config.json
    \* ---- the harvest of model references (SpecExtract) ----
    ext_pc,                 \* position in the simplified parse_workflow
    nodes_walked,           \* how many nodes the loop has been through
    values_seen,            \* the widget values of those nodes
    model_references_set,   \* the local set model_references
    references_result,      \* result['model_references']
    \* ---- the search-path tables built at start-up (SpecPaths) ----
    paths_pc,                \* position in InteractivePackageCreator.__init__
    yaml_data,               \* the UI configurations of extra_model_paths.yaml, in file order
    loaded_model_paths,      \* WorkflowParser.model_paths as _load_model_paths returns it
    model_search_paths,      \* InteractivePackageCreator.model_search_paths
    \* ---- ModelDownloader.download_model on one destination (SpecDownload) ----
    dl_pc,                   \* position in download_model and in the download method
    dest_file,               \* the content of the file at dest_path, or "absent"
    expected_hash,           \* the hash of the manifest entry, or None
    use_requests,            \* REQUESTS_AVAILABLE and self.session
    temp_file,               \* the content of temp_file, or "absent"
    retry_count,             \* retry_count of download_with_urllib
    attempts,                \* how often this invocation has opened the URL
    slept,                   \* the arguments of time.sleep in this invocation, in order
    dest_before,             \* the file at dest_path when the invocation began
    wrote_dest,              \* this invocation has moved a file to dest_path
    dl_history,              \* one record per returned invocation of download_model
    \* ---- the worker threads of download_models_from_config (SpecWorkers) ----
    wk_models,               \* config["external_models"]: destination, hash and what the URL serves
    wk_initial,              \* the files below the models directory before the run
    wk_files,                \* the files below the models directory
    wk_next,                 \* the next entry the executor hands to a free worker
    wk_task,                 \* per worker thread, the entry it is processing (0: none)
    wk_pc,                   \* per worker thread, its position in download_model
    wk_temp,                 \* per worker thread, the content of its temp_file
    wk_results,              \* per entry, what future.result() gives
    wk_return,               \* what download_models_from_config returned
    \* ---- the loop over the node array in parse_workflow (SpecNodes) ----
    nd_pc,                   \* position in parse_workflow
    nd_nodes,                \* the node array of the workflow document
    nd_idx,                  \* how many elements the loop has been through
    nd_types,                \* the local set node_types
    nd_ids,                  \* the local set custom_node_ids
    nd_refs,                 \* the local set model_references
    nd_result,               \* what parse_workflow returns: the identifiers and the references
    \* ---- the destination of a model, inline and deferred (SpecDest) ----
    dp_pc,                   \* "packager", then "downloader", then "done"
    dp_model_name,           \* the model reference as the workflow spells it
    dp_model_type,           \* the category the model is filed under
    dp_inline_path,          \* dest_path of create_package, below the package directory
    dp_entry,                \* the external_models entry create_package writes for it
    dp_download_path         \* dest_path of process_model, below the ComfyUI directory

asmVars == <<pc, pkgDirExists, custom_node_ids, models_to_process, rootState, workflowExists, managerInstalled, include_manager,
             outDirTouched, pkgTree, archive, result, catalog, model_references,
             pluginQueue, custom_nodes_processed, discoverQueue, models_by_type,
             models_processed, external_models, manifest, copyDone,
             copyFailed, consulted, answers, phaseLog,
             nodes_structure, parse_report, requirements_collector>>

resVars == <<model_paths, fs, enumReversed, reqType, reqName, resolveCount,
             firstResult, lastResult>>

plugVars == <<installed, metadata_ids, source_ids, scanQueue, custom_node_packages,
              raw_node_id, via, resolved_to>>

clsVars == <<cls_pc, node_type, widgets_values, value_idx, model_type, found_models,
             labelled, resolved_models>>

copyVars == <<copy_pc, src_tree, walk_stack, cur_root, cur_files, dst_tree, copy_warned>>

reqVars == <<req_pc, req_plugins, req_next, requirements, processed_files, times_read,
             package_config>>

extVars == <<ext_pc, nodes_walked, values_seen, model_references_set, references_result>>

pathsVars == <<paths_pc, yaml_data, loaded_model_paths, model_search_paths>>

dlVars == <<dl_pc, dest_file, expected_hash, use_requests, temp_file, retry_count, attempts, slept, dest_before, wrote_dest, dl_history>>

wkVars == <<wk_models, wk_initial, wk_files, wk_next, wk_task, wk_pc, wk_temp, wk_results, wk_return>>

ndVars == <<nd_pc, nd_nodes, nd_idx, nd_types, nd_ids, nd_refs, nd_result>>

dpVars == <<dp_pc, dp_model_name, dp_model_type, dp_inline_path, dp_entry, dp_download_path>>

vars == <<asmVars, resVars, plugVars, clsVars, copyVars, reqVars, extVars, pathsVars, dlVars, wkVars, ndVars, dpVars>>

\* what an action of one part leaves alone of the other parts
nonAsmVars == <<resVars, plugVars, clsVars, copyVars, reqVars, extVars, pathsVars, dlVars, wkVars, ndVars, dpVars>>
nonResVars == <<asmVars, plugVars, clsVars, copyVars, reqVars, extVars, pathsVars, dlVars, wkVars, ndVars, dpVars>>
nonPlugVars == <<asmVars, resVars, clsVars, copyVars, reqVars, extVars, pathsVars, dlVars, wkVars, ndVars, dpVars>>
nonClsVars == <<asmVars, resVars, plugVars, copyVars, reqVars, extVars, pathsVars, dlVars, wkVars, ndVars, dpVars>>
nonCopyVars == <<asmVars, resVars, plugVars, clsVars, reqVars, extVars, pathsVars, dlVars, wkVars, ndVars, dpVars>>
nonReqVars == <<asmVars, resVars, plugVars, clsVars, copyVars, extVars, pathsVars, dlVars, wkVars, ndVars, dpVars>>
nonExtVars == <<asmVars, resVars, plugVars, clsVars, copyVars, reqVars, pathsVars, dlVars, wkVars, ndVars, dpVars>>
nonPathsVars == <<asmVars, resVars, plugVars, clsVars, copyVars, reqVars, extVars, dlVars, wkVars, ndVars, dpVars>>
nonDlVars == <<asmVars, resVars, plugVars, clsVars, copyVars, reqVars, extVars, pathsVars, wkVars, ndVars, dpVars>>
nonWkVars == <<asmVars, resVars, plugVars, clsVars, copyVars, reqVars, extVars, pathsVars, dlVars, ndVars, dpVars>>
nonNdVars == <<asmVars, resVars, plugVars, clsVars, copyVars, reqVars, extVars, pathsVars, dlVars, wkVars, dpVars>>
nonDpVars == <<asmVars, resVars, plugVars, clsVars, copyVars, reqVars, extVars, pathsVars, dlVars, wkVars, ndVars>>

\* no catalog is being built
PlugIdle ==
    /\ installed = <<>>
    /\ metadata_ids = <<>>
    /\ source_ids = <<>>
    /\ scanQueue = <<>>
    /\ custom_node_packages = <<>>
    /\ raw_node_id = <<>>
    /\ via = "idle"
    /\ resolved_to = <<>>

\* no node is being classified
ClsIdle ==
    /\ cls_pc = "idle"
    /\ node_type = <<>>
    /\ widgets_values = <<>>
    /\ value_idx = 0
    /\ model_type = "None"
    /\ found_models = {}
    /\ labelled = <<>>
    /\ resolved_models = {}

\* no plugin folder is being copied file by file
CopyIdle ==
    /\ copy_pc = "idle"
    /\ src_tree = {}
    /\ walk_stack = <<>>
    /\ cur_root = <<>>
    /\ cur_files = <<>>
    /\ dst_tree = {}
    /\ copy_warned = {}

\* no requirements are being collected
ReqIdle ==
    /\ req_pc = "idle"
    /\ req_plugins = <<>>
    /\ requirements = {}
    /\ processed_files = {}
    /\ times_read = <<>>
    /\ req_next = 1
    /\ package_config = [has_dependencies |-> FALSE]

\* no references are being harvested
ExtIdle ==
    /\ ext_pc = "idle"
    /\ nodes_walked = 0
    /\ values_seen = {}
    /\ model_references_set = {}
    /\ references_result = <<>>

\* no search-path table is being built
PathsIdle ==
    /\ paths_pc = "idle"
    /\ yaml_data = <<>>
    /\ loaded_model_paths = <<>>
    /\ model_search_paths = <<>>

\* no download is under way
DlIdle ==
    /\ dl_pc = "idle"
    /\ dest_file = "absent"
    /\ expected_hash = "None"
    /\ use_requests = FALSE
    /\ temp_file = "absent"
    /\ retry_count = 0
    /\ attempts = 0
    /\ slept = <<>>
    /\ dest_before = "absent"
    /\ wrote_dest = FALSE
    /\ dl_history = <<>>

\* no manifest is being downloaded
WkIdle ==
    /\ wk_models = <<>>
    /\ wk_initial = <<>>
    /\ wk_files = <<>>
    /\ wk_next = 0
    /\ wk_task = <<>>
    /\ wk_pc = <<>>
    /\ wk_temp = <<>>
    /\ wk_results = <<>>
    /\ wk_return = "unset"

\* no node array is being walked
NdIdle ==
    /\ nd_pc = "idle"
    /\ nd_nodes = <<>>
    /\ nd_idx = 0
    /\ nd_types = {}
    /\ nd_ids = {}
    /\ nd_refs = {}
    /\ nd_result = [returned |-> FALSE]

\* no destination is being computed
DpIdle ==
    /\ dp_pc = "idle"
    /\ dp_model_name = <<>>
    /\ dp_model_type = "None"
    /\ dp_inline_path = <<>>
    /\ dp_entry = [written |-> FALSE]
    /\ dp_download_path = <<>>

\* the parts added after the resolver are idle, but for part g
LaterIdle(g) ==
    /\ (g = "plugins" \/ PlugIdle)
    /\ (g = "classify" \/ ClsIdle)
    /\ (g = "copy" \/ CopyIdle)
    /\ (g = "requirements" \/ ReqIdle)
    /\ (g = "extract" \/ ExtIdle)
    /\ (g = "paths" \/ PathsIdle)
    /\ (g = "download" \/ DlIdle)
    /\ (g = "workers" \/ WkIdle)
    /\ (g = "nodes" \/ NdIdle)
    /\ (g = "dest" \/ DpIdle)

-----------------------------------------------------------------------------
(* Bounds and the small universes the inputs are drawn from *)

\* size_threshold_gb * 1024^3, in abstract size units
SizeThreshold == 2

NoManifest == [written |-> FALSE]
\* no RequirementsCollector was created (line 307 not reached)
NoCollector == [created |-> FALSE]
None == "None"

\* installed plugin folders (custom_nodes/<folder>) other than the manager
PluginFolders == {"NodeA"}
Manager == "ComfyUI-Manager"

\* model references a workflow may carry
ModelRefs == {"big.safetensors", "styles/big.safetensors"}

\* os.path.basename / '/' in model_name, for the references above
Basename(ref) == IF ref = "styles/big.safetensors" THEN "big.safetensors" ELSE ref
HasSep(ref) == ref = "styles/big.safetensors"

\* the MODEL_TYPES the user picks from, in MODEL_TYPES order
ModelTypes == <<"checkpoints", "loras">>
TypeSet == {ModelTypes[i] : i \in 1..Len(ModelTypes)}

\* files on disk a reference can be resolved to
Files == {"f_small", "f_big", "f_gone"}
FileExists(f) == f # "f_gone"
FileSize(f) == IF f = "f_small" THEN SizeThreshold ELSE SizeThreshold + 1
FileContent(f) == IF f = "f_small" THEN 1 ELSE IF f = "f_big" THEN 2 ELSE 3

\* identifiers a workflow may carry, and the folder each resolves to
WorkflowIds == {"nodea", "comfyui-manager", "other"}

\* what an existing package directory holds before the run
OldTree == {<<"old_file">>, <<"config.json">>, <<"civitai_config.json">>}

\* the requirement lines the requirements.txt files of a plugin may hold
RequirementLines == {"torch"}

\* the files _copy_tree_filtered copies for a plugin folder
PluginFiles(p) == {<<"custom_nodes", p, "nodes.py">>, <<"custom_nodes", p, "data.json">>}

\* all orders of a finite set, as sequences (list(set) has no fixed order)
Perms(S) == {q \in [1..Cardinality(S) -> S] : \A i, j \in 1..Cardinality(S) : i # j => q[i] # q[j]}

EmptyByType == [t \in TypeSet |-> <<>>]

-----------------------------------------------------------------------------
(* Pure helpers of the assembly run *)

\* hashlib.md5 of the file's bytes, on the small content universe
CalculateFileHash(f) == (FileContent(f) * 37 + 11) % 101

\* WorkflowParser._get_custom_node_packages seen through its keys: the
\* lower-cased folder names; an unreadable root yields an empty catalog
GetCustomNodePackages(root, mgr) ==
    IF root # "ok" THEN {}
    ELSE PluginFolders \cup (IF mgr THEN {Manager} ELSE {})

\* the direct-match lookup of parse_workflow on the identifiers above
LookupPlugin(id, cat) ==
    CASE id = "nodea" /\ "NodeA" \in cat -> {"NodeA"}
      [] id = "comfyui-manager" /\ Manager \in cat -> {Manager}
      [] OTHER -> {}

ResolveCustomNodes(ids, cat) == UNION {LookupPlugin(id, cat) : id \in ids}

\* a manager that is appended without a look at the resolved plugins
WithManager_Unchecked(queue, incl, mgrExists) ==
    IF incl /\ mgrExists THEN Append(queue, Manager) ELSE queue

\* lines 290-304: ComfyUI-Manager is appended unless a resolved plugin is it
WithManager(queue, incl, mgrExists) ==
    IF incl /\ mgrExists /\ ~(\E i \in 1..Len(queue) : queue[i] = Manager)
    THEN Append(queue, Manager)
    ELSE queue

\* an oversized test that also catches a file of exactly the threshold
IsOversized_Inclusive(size, threshold) == size >= threshold

\* line 367: the oversized test
IsOversized(size, threshold) == size > threshold

\* an entry whose hash and size are not taken from the resolved file
ExternalEntry_Unhashed(ref, t, f, url) ==
    [name |-> Basename(ref),
     type |-> t,
     path |-> IF HasSep(ref) THEN ref ELSE None,
     url  |-> url,
     hash |-> 0,
     size |-> 0]

\* lines 394-401: the external_models entry
ExternalEntry(ref, t, f, url) ==
    [name |-> Basename(ref),
     type |-> t,
     path |-> IF HasSep(ref) THEN ref ELSE None,
     url  |-> url,
     hash |-> CalculateFileHash(f),
     size |-> FileSize(f)]

\* the model reference an external_models entry stands for
EntryRef(e) == IF e.path # None THEN e.path ELSE e.name

\* the first type, in MODEL_TYPES order, that still has a model to process
NextType(todo) ==
    LET idx == {i \in 1..Len(ModelTypes) : todo[ModelTypes[i]] # <<>>}
    IN  ModelTypes[CHOOSE i \in idx : \A j \in idx : i <= j]

AllProcessed(todo) == \A t \in TypeSet : todo[t] = <<>>

\* the phase of the assembly state machine a position belongs to
Phase(p) ==
    CASE p \in {"Init", "Constructed", "Validated"} -> "Init"
      [] p \in {"CopyingPlugins", "CopyingPluginsLoop"} -> "CopyingPlugins"
      [] p \in {"Finalizing", "Packaging"} -> "Finalizing"
      [] OTHER -> p

Terminal == {"Done", "Cancelled", "Aborted", "Failed"}

-----------------------------------------------------------------------------
(* The package-assembly run *)

Enter(p) == phaseLog' = Append(phaseLog, p)

AsmInit ==
    /\ pc = "Init"
    /\ rootState \in {"ok", "missing", "unreadable"}
    /\ workflowExists \in BOOLEAN
    /\ managerInstalled \in BOOLEAN
    /\ include_manager \in BOOLEAN
    /\ pkgDirExists \in BOOLEAN
    /\ pkgTree = IF pkgDirExists THEN OldTree ELSE {}
    /\ outDirTouched = FALSE
    /\ archive = FALSE
    /\ result = "unset"
    /\ catalog = {}
    /\ custom_node_ids = {}
    /\ model_references = {}
    /\ pluginQueue = <<>>
    /\ custom_nodes_processed = <<>>
    /\ discoverQueue = <<>>
    /\ models_by_type = EmptyByType
    /\ models_to_process = EmptyByType
    /\ models_processed = EmptyByType
    /\ external_models = <<>>
    /\ manifest = NoManifest
    /\ copyDone = {}
    /\ copyFailed = {}
    /\ consulted = [r \in ModelRefs |-> 0]
    /\ answers = [r \in ModelRefs |-> <<>>]
    /\ phaseLog = <<"Init">>
    /\ nodes_structure = "unset"
    /\ parse_report = "none"
    /\ requirements_collector = NoCollector

\* example.create_package, lines 48-52: a missing ComfyUI directory exits
ValidateComfyUIPathMissing ==
    /\ pc = "Init"
    /\ rootState = "missing"
    /\ pc' = "Aborted"
    /\ Enter("Aborted")
    /\ UNCHANGED <<pkgDirExists, custom_node_ids, models_to_process, rootState,
                   workflowExists, managerInstalled, include_manager, outDirTouched,
                   pkgTree, archive, result, catalog, model_references, pluginQueue,
                   custom_nodes_processed, discoverQueue, models_by_type,
                   models_processed, external_models, manifest, copyDone, copyFailed,
                   consulted, answers>>
    /\ UNCHANGED <<nodes_structure, parse_report, requirements_collector>>
    /\ UNCHANGED nonAsmVars

\* example.create_package line 55 and InteractivePackageCreator.__init__:
\* the parser builds its catalog; nothing checks that the root is readable
CreatorInit ==
    /\ pc = "Init"
    /\ rootState # "missing"
    /\ catalog' = GetCustomNodePackages(rootState, managerInstalled)
    /\ pc' = "Constructed"
    /\ UNCHANGED <<pkgDirExists, custom_node_ids, models_to_process, rootState,
                   workflowExists, managerInstalled, include_manager, outDirTouched,
                   pkgTree, archive, result, model_references, pluginQueue,
                   custom_nodes_processed, discoverQueue, models_by_type,
                   models_processed, external_models, manifest, copyDone, copyFailed,
                   consulted, answers, phaseLog>>
    /\ UNCHANGED <<nodes_structure, parse_report, requirements_collector>>
    /\ UNCHANGED nonAsmVars

\* create_package lines 210-213: a missing workflow file raises
WorkflowMissing ==
    /\ pc = "Constructed"
    /\ ~workflowExists
    /\ pc' = "Aborted"
    /\ Enter("Aborted")
    /\ UNCHANGED <<pkgDirExists, custom_node_ids, models_to_process, rootState,
                   workflowExists, managerInstalled, include_manager, outDirTouched,
                   pkgTree, archive, result, catalog, model_references, pluginQueue,
                   custom_nodes_processed, discoverQueue, models_by_type,
                   models_processed, external_models, manifest, copyDone, copyFailed,
                   consulted, answers>>
    /\ UNCHANGED <<nodes_structure, parse_report, requirements_collector>>
    /\ UNCHANGED nonAsmVars

\* create_package lines 215-224: defaults, os.makedirs(output_dir)
EnsureOutputDir ==
    /\ pc = "Constructed"
    /\ workflowExists
    /\ outDirTouched' = TRUE
    /\ pc' = "Validated"
    /\ UNCHANGED <<pkgDirExists, custom_node_ids, models_to_process, rootState,
                   workflowExists, managerInstalled, include_manager,
                   pkgTree, archive, result, catalog, model_references, pluginQueue,
                   custom_nodes_processed, discoverQueue, models_by_type,
                   models_processed, external_models, manifest, copyDone, copyFailed,
                   consulted, answers, phaseLog>>
    /\ UNCHANGED <<nodes_structure, parse_report, requirements_collector>>
    /\ UNCHANGED nonAsmVars

\* a veto that is only honoured after the existing directory was removed
VetoOverwrite_AfterRemove ==
    /\ pc = "Validated"
    /\ pkgDirExists
    /\ pkgTree' = {}
    /\ result' = ""
    /\ pc' = "Cancelled"
    /\ Enter("Cancelled")
    /\ UNCHANGED <<pkgDirExists, custom_node_ids, models_to_process, rootState,
                   workflowExists, managerInstalled, include_manager, outDirTouched,
                   archive, catalog, model_references, pluginQueue,
                   custom_nodes_processed, discoverQueue, models_by_type,
                   models_processed, external_models, manifest, copyDone, copyFailed,
                   consulted, answers>>
    /\ UNCHANGED <<nodes_structure, parse_report, requirements_collector>>
    /\ UNCHANGED nonAsmVars

\* lines 228-242: the package directory exists and the caller answers other than 'y'
VetoOverwrite ==
    /\ pc = "Validated"
    /\ pkgDirExists
    /\ result' = ""
    /\ pc' = "Cancelled"
    /\ Enter("Cancelled")
    /\ UNCHANGED <<pkgDirExists, custom_node_ids, models_to_process, rootState,
                   workflowExists, managerInstalled, include_manager, outDirTouched,
                   pkgTree, archive, catalog, model_references, pluginQueue,
                   custom_nodes_processed, discoverQueue, models_by_type,
                   models_processed, external_models, manifest, copyDone, copyFailed,
                   consulted, answers>>
    /\ UNCHANGED <<nodes_structure, parse_report, requirements_collector>>
    /\ UNCHANGED nonAsmVars

\* lines 244-248: the caller answered 'y' and shutil.rmtree raised part-way
RemoveExistingFails ==
    /\ pc = "Validated"
    /\ pkgDirExists
    /\ \E left \in SUBSET pkgTree : left # {} /\ pkgTree' = left
    /\ result' = ""
    /\ pc' = "Failed"
    /\ Enter("Failed")
    /\ UNCHANGED <<pkgDirExists, custom_node_ids, models_to_process, rootState,
                   workflowExists, managerInstalled, include_manager, outDirTouched,
                   archive, catalog, model_references, pluginQueue,
                   custom_nodes_processed, discoverQueue, models_by_type,
                   models_processed, external_models, manifest, copyDone, copyFailed,
                   consulted, answers>>
    /\ UNCHANGED <<nodes_structure, parse_report, requirements_collector>>
    /\ UNCHANGED nonAsmVars

\* lines 226-278: the package directory is (re)created empty, the directory
\* structure is made and the workflow file is copied in
PreparePackageDir ==
    /\ pc = "Validated"
    /\ pkgDirExists' = TRUE
    /\ pkgTree' = {<<"workflows", "workflow.json">>}
                   \cup (pkgTree \cap {<<"civitai_config.json">>})
    /\ pc' = "ExtractingDependencies"
    /\ Enter("ExtractingDependencies")
    /\ UNCHANGED <<custom_node_ids, models_to_process, rootState,
                   workflowExists, managerInstalled, include_manager, outDirTouched,
                   archive, result, catalog, model_references, pluginQueue,
                   custom_nodes_processed, discoverQueue, models_by_type,
                   models_processed, external_models, manifest, copyDone, copyFailed,
                   consulted, answers>>
    /\ UNCHANGED <<nodes_structure, parse_report, requirements_collector>>
    /\ UNCHANGED nonAsmVars

\* the shapes of what the workflow file holds
DocShapes ==
    {"nodes", "workflow.nodes", "keyed_array", "bare_array",
     "nodes_not_iterable", "nodes_without_objects",
     "object_without_nodes", "empty_or_scalar", "not_json"}

\* simplified parse_workflow lines 133-161 and 171-173: a 'nodes' key is taken
\* for the node list whatever it holds; a value that cannot be iterated raises
\* at line 171, one that holds no object yields no node; json.load raises on a
\* file that is no JSON
NodesStructure(doc) ==
    CASE doc \in {"nodes", "workflow.nodes", "keyed_array", "bare_array"} -> "found"
      [] doc = "nodes_not_iterable" -> "raised"
      [] doc = "nodes_without_objects" -> "no_object"
      [] doc = "object_without_nodes" -> "not_identified"
      [] doc = "empty_or_scalar" -> "unknown_format"
      [] doc = "not_json" -> "raised"

\* a parser that says nothing of a document it cannot read
ParseReport_Silent(doc) == "none"

\* lines 152-153 and 159-160 print a warning, lines 259-263 an error and the
\* traceback; the other ways out print nothing
ParseReport(doc) ==
    CASE NodesStructure(doc) \in {"not_identified", "unknown_format"} -> "warning"
      [] NodesStructure(doc) = "raised" -> "error"
      [] OTHER -> "none"

\* parse_workflow lines 128-233: the node array is walked and the plugin
\* identifiers and model references are harvested.  A document with no
\* recognizable node array, or one that raises while parsed, returns the empty
\* result: the same as a workflow that carries nothing
ExtractDependencies ==
    /\ pc = "ExtractingDependencies"
    /\ \E ids \in SUBSET WorkflowIds, refs \in SUBSET ModelRefs, doc \in DocShapes :
          /\ nodes_structure' = NodesStructure(doc)
          /\ parse_report' = ParseReport(doc)
          /\ custom_node_ids' = IF NodesStructure(doc) = "found" THEN ids ELSE {}
          /\ model_references' = IF NodesStructure(doc) = "found" THEN refs ELSE {}
    /\ pc' = "ResolvingPlugins"
    /\ Enter("ResolvingPlugins")
    /\ UNCHANGED <<pkgDirExists, models_to_process, rootState,
                   workflowExists, managerInstalled, include_manager, outDirTouched,
                   pkgTree, archive, result, catalog, pluginQueue,
                   custom_nodes_processed, discoverQueue, models_by_type,
                   models_processed, external_models, manifest, copyDone, copyFailed,
                   consulted, answers>>
    /\ UNCHANGED requirements_collector
    /\ UNCHANGED nonAsmVars

\* parse_workflow lines 235-257: identifiers are resolved against the catalog;
\* the resolved set and the reference set become lists in no fixed order
ResolvePlugins ==
    /\ pc = "ResolvingPlugins"
    /\ pluginQueue' \in Perms(ResolveCustomNodes(custom_node_ids, catalog))
    /\ discoverQueue' \in Perms(model_references)
    /\ pc' = "CopyingPlugins"
    /\ Enter("CopyingPlugins")
    /\ UNCHANGED <<pkgDirExists, custom_node_ids, models_to_process, rootState,
                   workflowExists, managerInstalled, include_manager, outDirTouched,
                   pkgTree, archive, result, catalog, model_references,
                   custom_nodes_processed, models_by_type,
                   models_processed, external_models, manifest, copyDone, copyFailed,
                   consulted, answers>>
    /\ UNCHANGED <<nodes_structure, parse_report, requirements_collector>>
    /\ UNCHANGED nonAsmVars

\* create_package lines 284-307: with at least one resolved plugin the manager
\* is added when requested and installed
BeginCopyingPlugins ==
    /\ pc = "CopyingPlugins"
    /\ pluginQueue' = IF pluginQueue # <<>>
                      THEN WithManager(pluginQueue, include_manager,
                                       rootState = "ok" /\ managerInstalled)
                      ELSE pluginQueue
    /\ requirements_collector' = IF pluginQueue # <<>>
                                 THEN [created |-> TRUE, requirements |-> {}]
                                 ELSE NoCollector
    /\ pc' = "CopyingPluginsLoop"
    /\ UNCHANGED <<pkgDirExists, custom_node_ids, models_to_process, rootState,
                   workflowExists, managerInstalled, include_manager, outDirTouched,
                   pkgTree, archive, result, catalog, model_references,
                   custom_nodes_processed, discoverQueue, models_by_type,
                   models_processed, external_models, manifest, copyDone, copyFailed,
                   consulted, answers, phaseLog>>
    /\ UNCHANGED <<nodes_structure, parse_report>>
    /\ UNCHANGED nonAsmVars

\* what the plugin loop records for a plugin whose copy returned normally
ProcessedAfterCopy(processed, p) == Append(processed, p)

\* a plugin loop that lists the plugin although its copy raised
ProcessedAfterError_Listed(processed, p) == Append(processed, p)

\* what the plugin loop records for a plugin whose copy raised
ProcessedAfterError(processed, p) == processed

\* lines 310-324, one iteration: _copy_tree_filtered either copies every file,
\* or swallows a PermissionError on one file and returns normally, or raises
CopyPlugin ==
    /\ pc = "CopyingPluginsLoop"
    /\ pluginQueue # <<>>
    /\ LET p == Head(pluginQueue) IN
       \/ /\ pkgTree' = pkgTree \cup PluginFiles(p)
          /\ copyDone' = copyDone \cup {p}
          /\ custom_nodes_processed' = ProcessedAfterCopy(custom_nodes_processed, p)
          /\ \E lines \in SUBSET RequirementLines :
                requirements_collector' =
                   [requirements_collector EXCEPT !.requirements = @ \cup lines]
          /\ UNCHANGED copyFailed
       \/ /\ pkgTree' = pkgTree \cup {<<"custom_nodes", p, "nodes.py">>}
          /\ copyDone' = copyDone \cup {p}
          /\ custom_nodes_processed' = ProcessedAfterCopy(custom_nodes_processed, p)
          /\ \E lines \in SUBSET RequirementLines :
                requirements_collector' =
                   [requirements_collector EXCEPT !.requirements = @ \cup lines]
          /\ UNCHANGED copyFailed
       \/ /\ pkgTree' \in {pkgTree, pkgTree \cup {<<"custom_nodes", p, "nodes.py">>}}
          /\ copyFailed' = copyFailed \cup {p}
          /\ custom_nodes_processed' = ProcessedAfterError(custom_nodes_processed, p)
          /\ UNCHANGED <<copyDone, requirements_collector>>
    /\ pluginQueue' = Tail(pluginQueue)
    /\ UNCHANGED <<pc, pkgDirExists, custom_node_ids, models_to_process, rootState,
                   workflowExists, managerInstalled, include_manager, outDirTouched,
                   archive, result, catalog, model_references,
                   discoverQueue, models_by_type,
                   models_processed, external_models, manifest,
                   consulted, answers, phaseLog>>
    /\ UNCHANGED <<nodes_structure, parse_report>>
    /\ UNCHANGED nonAsmVars

\* the plugin loop is over (or was never entered): line 326
FinishCopyingPlugins ==
    /\ pc = "CopyingPluginsLoop"
    /\ pluginQueue = <<>>
    /\ pc' = "ResolvingModels"
    /\ Enter("ResolvingModels")
    /\ UNCHANGED <<pkgDirExists, custom_node_ids, models_to_process, rootState,
                   workflowExists, managerInstalled, include_manager, outDirTouched,
                   pkgTree, archive, result, catalog, model_references, pluginQueue,
                   custom_nodes_processed, discoverQueue, models_by_type,
                   models_processed, external_models, manifest, copyDone, copyFailed,
                   consulted, answers>>
    /\ UNCHANGED <<nodes_structure, parse_report, requirements_collector>>
    /\ UNCHANGED nonAsmVars

\* _interactive_model_discovery lines 545-558, one iteration: the caller picks
\* the type and a path, or skips the reference
DiscoverModel ==
    /\ pc = "ResolvingModels"
    /\ discoverQueue # <<>>
    /\ LET ref == Head(discoverQueue) IN
       \E t \in TypeSet, path \in Files \cup {None} :
          models_by_type' =
              IF path # None
              THEN [models_by_type EXCEPT ![t] = Append(@, [name |-> ref, path |-> path])]
              ELSE models_by_type
    /\ discoverQueue' = Tail(discoverQueue)
    /\ UNCHANGED <<pc, pkgDirExists, custom_node_ids, models_to_process, rootState,
                   workflowExists, managerInstalled, include_manager, outDirTouched,
                   pkgTree, archive, result, catalog, model_references, pluginQueue,
                   custom_nodes_processed,
                   models_processed, external_models, manifest, copyDone, copyFailed,
                   consulted, answers, phaseLog>>
    /\ UNCHANGED <<nodes_structure, parse_report, requirements_collector>>
    /\ UNCHANGED nonAsmVars

\* a discovery that may return before every reference is classified
DiscoveryDone_Early(queue) == TRUE

\* whether _interactive_model_discovery has classified every reference
DiscoveryDone(queue) == queue = <<>>

\* _interactive_model_discovery returns (line 568); create_package line 327
FinishDiscovery ==
    /\ pc = "ResolvingModels"
    /\ DiscoveryDone(discoverQueue)
    /\ models_to_process' = models_by_type
    /\ pc' = "DecidingModels"
    /\ Enter("DecidingModels")
    /\ UNCHANGED <<pkgDirExists, custom_node_ids, rootState,
                   workflowExists, managerInstalled, include_manager, outDirTouched,
                   pkgTree, archive, result, catalog, model_references, pluginQueue,
                   custom_nodes_processed, discoverQueue, models_by_type,
                   models_processed, external_models, manifest, copyDone, copyFailed,
                   consulted, answers>>
    /\ UNCHANGED <<nodes_structure, parse_report, requirements_collector>>
    /\ UNCHANGED nonAsmVars

\* what the caller may type at the oversized prompt and at the URL prompt
Choices == {"1", "2", "3", "x"}
Urls == {"", "https://host/model"}

\* lines 378-406: what the answers to the oversized prompt lead to
OversizedOutcome(choice, url) ==
    IF choice = "1" THEN "include"
    ELSE IF choice = "2" /\ url # "" THEN "defer"
    ELSE "skip"

\* shutil.copy2(model_path, dest_path) returned: lines 380-381 and 410-411
ModelCopied(t, ref) ==
    /\ pkgTree' = pkgTree \cup {<<"models", t, ref>>}
    /\ copyDone' = copyDone \cup {ref}
    /\ models_processed' = [models_processed EXCEPT ![t] = Append(@, ref)]
    /\ UNCHANGED <<pc, copyFailed, external_models, phaseLog>>

\* shutil.copy2 raised: nothing catches it, create_package ends by the exception
ModelCopyRaised(t, ref) ==
    /\ pkgTree' \in {pkgTree, pkgTree \cup {<<"models", t, ref>>}}
    /\ copyFailed' = copyFailed \cup {ref}
    /\ pc' = "Aborted"
    /\ Enter("Aborted")
    /\ UNCHANGED <<copyDone, models_processed, external_models>>

ModelSkipped ==
    UNCHANGED <<pc, pkgTree, copyDone, copyFailed, models_processed, external_models,
                phaseLog>>

\* lines 339-411, one iteration of the model loop
DecideModel ==
    /\ pc = "DecidingModels"
    /\ ~AllProcessed(models_to_process)
    /\ LET t   == NextType(models_to_process)
           e   == Head(models_to_process[t])
           ref == e.name
           f   == e.path
       IN  /\ models_to_process' = [models_to_process EXCEPT ![t] = Tail(@)]
           /\ IF ~FileExists(f)
              THEN ModelSkipped /\ UNCHANGED <<consulted, answers>>
              ELSE IF ~IsOversized(FileSize(f), SizeThreshold)
              THEN /\ UNCHANGED <<consulted, answers>>
                   /\ (ModelCopied(t, ref) \/ ModelCopyRaised(t, ref))
              ELSE \E choice \in Choices, url \in Urls :
                   /\ consulted' = [consulted EXCEPT ![ref] = @ + 1]
                   /\ answers' = [answers EXCEPT ![ref] =
                                     IF choice = "2" THEN <<choice, url>> ELSE <<choice>>]
                   /\ (choice # "2" => url = "")
                   /\ CASE OversizedOutcome(choice, url) = "include" ->
                             (ModelCopied(t, ref) \/ ModelCopyRaised(t, ref))
                        [] OversizedOutcome(choice, url) = "defer" ->
                             /\ external_models' =
                                   Append(external_models, ExternalEntry(ref, t, f, url))
                             /\ UNCHANGED <<pc, pkgTree, copyDone, copyFailed,
                                            models_processed, phaseLog>>
                        [] OTHER -> ModelSkipped
    /\ UNCHANGED <<pkgDirExists, custom_node_ids, rootState,
                   workflowExists, managerInstalled, include_manager, outDirTouched,
                   archive, result, catalog, model_references, pluginQueue,
                   custom_nodes_processed, discoverQueue, models_by_type, manifest>>
    /\ UNCHANGED <<nodes_structure, parse_report, requirements_collector>>
    /\ UNCHANGED nonAsmVars

\* the model loop is over: line 413
FinishDeciding ==
    /\ pc = "DecidingModels"
    /\ AllProcessed(models_to_process)
    /\ pc' = "Finalizing"
    /\ Enter("Finalizing")
    /\ UNCHANGED <<pkgDirExists, custom_node_ids, models_to_process, rootState,
                   workflowExists, managerInstalled, include_manager, outDirTouched,
                   pkgTree, archive, result, catalog, model_references, pluginQueue,
                   custom_nodes_processed, discoverQueue, models_by_type,
                   models_processed, external_models, manifest, copyDone, copyFailed,
                   consulted, answers>>
    /\ UNCHANGED <<nodes_structure, parse_report, requirements_collector>>
    /\ UNCHANGED nonAsmVars

\* lines 413-449: config.json is written
WriteManifest ==
    /\ pc = "Finalizing"
    /\ manifest' = [written |-> TRUE,
                    installation_order |-> custom_nodes_processed,
                    external_models |-> external_models,
                    included_models |-> models_processed,
                    dependencies |-> IF requirements_collector.created
                                     THEN requirements_collector.requirements
                                     ELSE {}]
    /\ pkgTree' = pkgTree \cup {<<"config.json">>}
    /\ pc' = "Packaging"
    /\ UNCHANGED <<pkgDirExists, custom_node_ids, models_to_process, rootState,
                   workflowExists, managerInstalled, include_manager, outDirTouched,
                   archive, result, catalog, model_references, pluginQueue,
                   custom_nodes_processed, discoverQueue, models_by_type,
                   models_processed, external_models, copyDone, copyFailed,
                   consulted, answers, phaseLog>>
    /\ UNCHANGED <<nodes_structure, parse_report, requirements_collector>>
    /\ UNCHANGED nonAsmVars

\* lines 451-519: the download script, README.md, the ZIP archive, and the
\* optional removal of the package directory
FinishPackage ==
    /\ pc = "Packaging"
    /\ archive' = TRUE
    /\ \E cleanup \in BOOLEAN :
          IF cleanup
          THEN pkgTree' = {} /\ pkgDirExists' = FALSE
          ELSE /\ pkgTree' = pkgTree \cup {<<"README.md">>}
                     \cup (IF external_models # <<>> THEN {<<"download_models.py">>} ELSE {})
               /\ UNCHANGED pkgDirExists
    /\ result' = "zip_path"
    /\ pc' = "Done"
    /\ Enter("Done")
    /\ UNCHANGED <<custom_node_ids, models_to_process, rootState,
                   workflowExists, managerInstalled, include_manager, outDirTouched,
                   catalog, model_references, pluginQueue,
                   custom_nodes_processed, discoverQueue, models_by_type,
                   models_processed, external_models, manifest, copyDone, copyFailed,
                   consulted, answers>>
    /\ UNCHANGED <<nodes_structure, parse_report, requirements_collector>>
    /\ UNCHANGED nonAsmVars

AsmNext ==
    \/ ValidateComfyUIPathMissing
    \/ CreatorInit
    \/ WorkflowMissing
    \/ EnsureOutputDir
    \/ VetoOverwrite
    \/ RemoveExistingFails
    \/ PreparePackageDir
    \/ ExtractDependencies
    \/ ResolvePlugins
    \/ BeginCopyingPlugins
    \/ CopyPlugin
    \/ FinishCopyingPlugins
    \/ DiscoverModel
    \/ FinishDiscovery
    \/ DecideModel
    \/ FinishDeciding
    \/ WriteManifest
    \/ FinishPackage

\* the resolver takes no part in the assembly run: the interactive creator
\* uses the simplified parser, which resolves no model path
ResIdle ==
    /\ model_paths = [checkpoints |-> <<>>, loras |-> <<>>]
    /\ fs = {}
    /\ enumReversed = FALSE
    /\ reqType = "checkpoints"
    /\ reqName = [sub |-> <<>>, base |-> <<>>]
    /\ resolveCount = 0
    /\ firstResult = [found |-> FALSE]
    /\ lastResult = [found |-> FALSE]

Init == AsmInit /\ ResIdle /\ LaterIdle("none")
Next == AsmNext
Spec == Init /\ [][Next]_vars

-----------------------------------------------------------------------------
(* Properties of the package-assembly run *)

SeqToSet(q) == {q[i] : i \in 1..Len(q)}

\* the (type, path) the caller chose for a reference, if any
ChosenFor(ref) ==
    {c \in TypeSet \X Files :
        \E i \in 1..Len(models_by_type[c[1]]) :
            models_by_type[c[1]][i] = [name |-> ref, path |-> c[2]]}

Pending(ref) ==
    \E t \in TypeSet : \E i \in 1..Len(models_to_process[t]) : models_to_process[t][i].name = ref

\* the model loop has finished its iteration for the reference, normally
Decided(ref) ==
    /\ pc \in {"DecidingModels", "Finalizing", "Packaging", "Done", "Aborted"}
    /\ "DecidingModels" \in SeqToSet(phaseLog)
    /\ ChosenFor(ref) # {}
    /\ ~Pending(ref)
    /\ ref \notin copyFailed

Included(t, ref) == ref \in SeqToSet(models_processed[t])
IncludedAnywhere(ref) == \E t \in TypeSet : Included(t, ref)
Deferred(ref) == \E i \in 1..Len(external_models) : EntryRef(external_models[i]) = ref
InTree(ref) == \E t \in TypeSet : <<"models", t, ref>> \in pkgTree

ListedInManifest(a) ==
    /\ manifest.written
    /\ \/ a \in SeqToSet(manifest.installation_order)
       \/ \E t \in TypeSet : a \in SeqToSet(manifest.included_models[t])

\* C1: a written manifest lists under installation_order and included_models
\* only artifacts whose copy returned normally before the manifest was written;
\* an artifact whose copy raised is listed by no manifest on disk
C1_ManifestListsOnlyCopied ==
    /\ \A a \in PluginFolders \cup {Manager} \cup ModelRefs :
          ListedInManifest(a) => a \in copyDone /\ a \notin copyFailed
    /\ (copyFailed # {} /\ <<"config.json">> \in pkgTree) => manifest.written

C1_Witness ==
    /\ manifest.written
    /\ copyFailed # {}
    /\ manifest.installation_order # <<>>
    /\ \E t \in TypeSet : manifest.included_models[t] # <<>>

\* C2: an existing model at most as large as the threshold is copied and
\* included without the oversized prompt; a larger one is prompted for exactly
\* once and the answer alone decides: include, defer (non-empty URL), or neither
C2_ThresholdDecides ==
    \A ref \in ModelRefs : Decided(ref) =>
        \A c \in ChosenFor(ref) :
            LET t == c[1]
                f == c[2]
            IN  FileExists(f) =>
                  IF FileSize(f) <= SizeThreshold
                  THEN /\ consulted[ref] = 0
                       /\ Included(t, ref) /\ ref \in copyDone /\ ~Deferred(ref)
                  ELSE /\ consulted[ref] = 1
                       /\ answers[ref] = <<"1">> =>
                             Included(t, ref) /\ ref \in copyDone /\ ~Deferred(ref)
                       /\ (Len(answers[ref]) = 2 /\ answers[ref][2] # "") =>
                             Deferred(ref) /\ ~IncludedAnywhere(ref)
                             /\ ref \notin copyDone /\ ~InTree(ref)
                       /\ (answers[ref] # <<"1">>
                             /\ ~(Len(answers[ref]) = 2 /\ answers[ref][2] # "")) =>
                             ~Deferred(ref) /\ ~IncludedAnywhere(ref)
                             /\ ref \notin copyDone /\ ~InTree(ref)

C2_Witness ==
    /\ pc = "Done"
    /\ \E r1, r2 \in ModelRefs :
          /\ r1 # r2 /\ Decided(r1) /\ Decided(r2)
          /\ \E c \in ChosenFor(r1) : c[2] = "f_small"
          /\ \E c \in ChosenFor(r2) : c[2] = "f_big"
          /\ consulted[r1] = 0 /\ IncludedAnywhere(r1)
          /\ consulted[r2] = 1 /\ answers[r2] = <<"2", "">>

\* C3: an oversized model deferred with a URL has exactly one external_models
\* entry, carrying the hash and size of the resolved file; it is not copied and
\* not in included_models; no reference is both included and deferred
C3_DeferredEntry ==
    /\ \A ref \in ModelRefs :
          (Decided(ref) /\ Len(answers[ref]) = 2 /\ answers[ref][2] # "") =>
              \A c \in ChosenFor(ref) :
                  /\ Cardinality({i \in 1..Len(external_models) :
                                     EntryRef(external_models[i]) = ref}) = 1
                  /\ \A i \in 1..Len(external_models) :
                        EntryRef(external_models[i]) = ref =>
                            /\ external_models[i].hash = CalculateFileHash(c[2])
                            /\ external_models[i].size = FileSize(c[2])
                            /\ external_models[i].type = c[1]
                            /\ external_models[i].url = answers[ref][2]
                  /\ ref \notin copyDone /\ ~InTree(ref) /\ ~IncludedAnywhere(ref)
    /\ manifest.written =>
          \A ref \in ModelRefs :
              ~ (/\ \E t \in TypeSet : ref \in SeqToSet(manifest.included_models[t])
                 /\ \E i \in 1..Len(manifest.external_models) :
                       EntryRef(manifest.external_models[i]) = ref)

C3_Witness ==
    /\ manifest.written
    /\ \E i \in 1..Len(manifest.external_models) :
          /\ manifest.external_models[i].path = "styles/big.safetensors"
          /\ manifest.external_models[i].hash = CalculateFileHash("f_big")
    /\ \E t \in TypeSet : "big.safetensors" \in SeqToSet(manifest.included_models[t])

\* C4 as claimed: a copy that raises, for a plugin file, a plugin or a model,
\* never ends create_package; the run goes on to write the manifest
C4_CopyFailureNeverAborts == copyFailed # {} => pc # "Aborted"

\* C5 as claimed: with the workflow file missing, or the ComfyUI directory
\* missing or unreadable, nothing is created or modified
C5_FatalInputNoSideEffects ==
    (~workflowExists \/ rootState # "ok") =>
        /\ ~outDirTouched
        /\ pkgTree \in {{}, OldTree}
        /\ ~manifest.written
        /\ ~archive

\* C6 as claimed: past the initial phase the run can still be ended Cancelled
\* by a veto of the overwrite
C6_CancelReachableFromAnyState ==
    (Phase(pc) # "Init" /\ pc \notin Terminal) => ENABLED VetoOverwrite

\* C6 amended: Cancelled is entered only from the initial phase, by the veto of
\* the overwrite of an existing package directory; once extraction has begun
\* the run never becomes Cancelled; a Cancelled run returns the empty result,
\* has written no manifest and no archive and left the directory as it was
C6_CancelledOnlyByInitialVeto ==
    /\ [](pc = "Cancelled" =>
             /\ result = ""
             /\ ~manifest.written /\ ~archive
             /\ pkgTree = OldTree /\ pkgDirExists
             /\ phaseLog = <<"Init", "Cancelled">>)
    /\ [][pc' = "Cancelled" => (pc = "Validated" /\ pkgTree' = pkgTree)]_vars
    /\ [][Phase(pc) \notin {"Init", "Cancelled"} => pc' # "Cancelled"]_vars

C6_Witness == pc = "Cancelled" /\ result = "" /\ pkgTree = OldTree

PhaseOrder ==
    <<"Init", "ExtractingDependencies", "ResolvingPlugins", "CopyingPlugins",
      "ResolvingModels", "DecidingModels", "Finalizing", "Done">>

IsPrefix(a, b) == Len(a) <= Len(b) /\ \A i \in 1..Len(a) : a[i] = b[i]

\* C7: a run that is neither cancelled nor aborted enters the phases in the
\* fixed order, each exactly once; no plugin is copied before extraction has
\* finished, no model is copied or deferred before every reference has been
\* classified and located, and the manifest is written after the last decision
C7_PhasesInOrder ==
    /\ pc \notin {"Cancelled", "Aborted", "Failed"} =>
          /\ IsPrefix(phaseLog, PhaseOrder)
          /\ phaseLog[Len(phaseLog)] = Phase(pc)
    /\ pc = "Done" => phaseLog = PhaseOrder
    /\ (copyDone \cup copyFailed) # {} =>
          {"ExtractingDependencies", "ResolvingPlugins"} \subseteq SeqToSet(phaseLog)
    /\ ((copyDone \cup copyFailed) \cap ModelRefs # {} \/ external_models # <<>>
            \/ \E r \in ModelRefs : consulted[r] > 0) =>
          /\ discoverQueue = <<>>
          /\ pluginQueue = <<>>
    /\ manifest.written =>
          /\ AllProcessed(models_to_process)
          /\ discoverQueue = <<>>
          /\ pluginQueue = <<>>

C7_Witness ==
    /\ pc = "Done"
    /\ Manager \in copyDone /\ "NodeA" \in copyDone
    /\ external_models # <<>>
    /\ \E t \in TypeSet : models_processed[t] # <<>>

-----------------------------------------------------------------------------
(* Strings, as sequences of tokens: one token per character, and one token *)
(* per file extension                                                      *)

\* str.lower(), token by token
LowerTok(c) ==
    CASE c = "M" -> "m"
      [] c = "A" -> "a"
      [] c = "S" -> "s"
      [] c = "Upscale" -> "upscale"
      [] c = "Nodes" -> "nodes"
      [] c = "Pack" -> "pack"
      [] c = "Scaler" -> "scaler"
      [] c = "Lora" -> "lora"
      [] c = "Load" -> "load"
      [] c = "Note" -> "note"
      [] c = "VAE" -> "vae"
      [] c = "Model" -> "model"
      [] c = "Control" -> "control"
      [] c = "Net" -> "net"
      [] c = "Checkpoint" -> "checkpoint"
      [] c = "Sam" -> "sam"
      [] c = "Styles" -> "styles"
      [] c = "None" -> "none"
      [] c = ".SAFETENSORS" -> ".safetensors"
      [] OTHER -> c

Lower(n) == [i \in DOMAIN n |-> LowerTok(n[i])]

\* str.replace(from, to) for single characters
Replace(n, from, to) == [i \in DOMAIN n |-> IF n[i] = from THEN to ELSE n[i]]

ExtTokens == {".safetensors", ".ckpt", ".pt"}

\* str.endswith(ext)
EndsWith(n, ext) == Len(n) > 0 /\ n[Len(n)] = ext

\* os.path.splitext(name)[0]
SplitExtStem(n) ==
    IF Len(n) > 1 /\ n[Len(n)] \in ExtTokens THEN SubSeq(n, 1, Len(n) - 1) ELSE n

\* a in b, for strings
IsSubstring(a, b) ==
    \E k \in 0..(Len(b) - Len(a)) : \A i \in 1..Len(a) : b[k + i] = a[i]

\* the first element of a sequence of paths, or NotFound
NotFound == [found |-> FALSE]
FirstOf(q) == IF q = <<>> THEN NotFound ELSE q[1]

\* the sequence with the elements of q that satisfy Test, order kept
RECURSIVE SelectSeqBy(_, _)
SelectSeqBy(q, keep) ==
    IF q = <<>> THEN <<>>
    ELSE (IF Head(q) \in keep THEN <<Head(q)>> ELSE <<>>) \o SelectSeqBy(Tail(q), keep)

Reverse(q) == [i \in 1..Len(q) |-> q[Len(q) + 1 - i]]

RECURSIVE Flatten(_)
Flatten(qq) == IF qq = <<>> THEN <<>> ELSE Head(qq) \o Flatten(Tail(qq))

-----------------------------------------------------------------------------
(* The filesystem seen by the resolver *)

\* at most this many files exist below the base directories
MaxFiles == 2
\* _resolve_model_path is called at most this many times for one request
MaxResolves == 2

N_exact == <<"M", "_", "a", ".pt">>
N_lower == <<"m", "_", "a", ".pt">>
N_space == <<"M", " ", "a", ".pt">>
N_upper == <<"M", "_", "A", ".pt">>
N_ckpt  == <<"M", "_", "a", ".ckpt">>
N_st    == <<"M", "_", "a", ".safetensors">>
N_bare  == <<"M", "_", "a">>
N_barelow == <<"m", "_", "a">>

D_S == <<"S">>
D_s == <<"s">>
D_x == <<"x">>

\* the references of the classified node, and the directory of one of them
B_sdxl == <<"sd", "_", "xl", "_", "base", ".safetensors">>
B_mylora == <<"my", "lora", ".safetensors">>
B_vae == <<"my", "_", "vae", ".safetensors">>
D_styles == <<"styles">>
D_Styles == <<"Styles">>

\* the two enumeration orders of directory entries: this one and its reverse
DirNameOrder == <<D_S, D_s, D_x, D_Styles, D_styles>>
FileNameOrder == <<N_exact, N_lower, N_space, N_upper, N_ckpt, N_st, N_bare, N_barelow,
                   B_sdxl, B_mylora, B_vae>>

\* where below a base directory a file may lie
Locations == {<<>>, <<D_S>>, <<D_s>>, <<D_x, D_S>>, <<D_x, D_s>>}

\* the requests: a name with an extension or without, with a subpath or without
RefBases == {N_exact, N_bare}
RefSubdirs == {<<>>, <<D_S>>}

\* the file names that can matter to a request for the base name
FileNamesFor(base) ==
    IF base = N_exact THEN {N_exact, N_lower, N_space, N_upper, N_ckpt}
    ELSE {N_bare, N_barelow, N_st, N_ckpt, N_exact}

\* model_paths as _load_model_paths builds it without an override file
DefaultModelPaths ==
    [checkpoints |-> <<"D1", "D2">>, loras |-> <<"L1">>]

BaseDirs == {"D1", "D2", "L1"}

PathUniverse(base) ==
    {[dir |-> d, sub |-> loc, name |-> n] :
        d \in BaseDirs, loc \in Locations, n \in FileNamesFor(base)}

\* os.path.exists of a file, os.path.isdir of a directory
Exists(fsys, d, sub, n) == [dir |-> d, sub |-> sub, name |-> n] \in fsys

IsDir(fsys, d, sub) ==
    \E f \in fsys : f.dir = d /\ Len(f.sub) >= Len(sub) /\ SubSeq(f.sub, 1, Len(sub)) = sub

Enumerate(order, rev, present) ==
    SelectSeqBy(IF rev THEN Reverse(order) ELSE order, present)

\* the subdirectories and the files of a directory, in enumeration order
SubDirs(fsys, rev, d, sub) ==
    Enumerate(DirNameOrder, rev,
              {f.sub[Len(sub) + 1] : f \in {g \in fsys : /\ g.dir = d
                                                        /\ Len(g.sub) > Len(sub)
                                                        /\ SubSeq(g.sub, 1, Len(sub)) = sub}})

FilesIn(fsys, rev, d, sub) ==
    Enumerate(FileNameOrder, rev, {f.name : f \in {g \in fsys : g.dir = d /\ g.sub = sub}})

\* os.walk(base), top-down: the directories in the order they are visited
RECURSIVE WalkFrom(_, _, _, _, _)
WalkFrom(fsys, rev, d, sub, depth) ==
    <<sub>> \o
    (IF depth = 0 THEN <<>>
     ELSE LET kids == SubDirs(fsys, rev, d, sub)
          IN  Flatten([i \in 1..Len(kids) |->
                          WalkFrom(fsys, rev, d, Append(sub, kids[i]), depth - 1)]))

Walk(fsys, rev, d) == WalkFrom(fsys, rev, d, <<>>, 2)

\* os.path.relpath(directory, base) and os.path.basename of it, as strings
RelDir(sub) ==
    IF sub = <<>> THEN <<".">>
    ELSE IF Len(sub) = 1 THEN sub[1]
    ELSE sub[1] \o <<"/">> \o sub[2]

RelDirBase(sub) == IF sub = <<>> THEN <<".">> ELSE sub[Len(sub)]

Found(d, sub, n) == [found |-> TRUE, dir |-> d, sub |-> sub, name |-> n]

-----------------------------------------------------------------------------
(* WorkflowParser._resolve_model_path *)

\* the extension guesses in another order
GuessedExtensions_Reordered == <<".ckpt", ".safetensors", ".pt">>

\* lines 721-723: the extensions tried when the name does not end with them
GuessedExtensions == <<".safetensors", ".ckpt", ".pt">>

\* lines 713-726: possible_filenames, in list order
PossibleFilenames(base) ==
    <<base,
      Lower(base),
      Replace(base, " ", "_"),
      Replace(Lower(base), " ", "_"),
      Replace(base, "_", " "),
      Replace(Lower(base), "_", " ")>>
    \o Flatten([i \in 1..Len(GuessedExtensions) |->
                  IF ~EndsWith(base, GuessedExtensions[i])
                  THEN <<Append(SplitExtStem(base), GuessedExtensions[i])>>
                  ELSE <<>>])

\* the possible filenames that exist in one directory, in list order
NamesFoundIn(fsys, d, sub, base) ==
    LET names == PossibleFilenames(base)
        hits  == {i \in 1..Len(names) : Exists(fsys, d, sub, names[i])}
    IN  [k \in 1..Cardinality(hits) |->
            LET i == CHOOSE i \in hits : Cardinality({j \in hits : j < i}) = k - 1
            IN  Found(d, sub, names[i])]

\* lines 730-735, one base path: the exact relative path
Stage1In(fsys, rev, d, rq) ==
    IF Exists(fsys, d, rq.sub, rq.base) THEN <<Found(d, rq.sub, rq.base)>> ELSE <<>>

\* lines 738-747, one base path: the subdirectory, then the filename variants
Stage2In(fsys, rev, d, rq) ==
    IF rq.sub # <<>> /\ IsDir(fsys, d, rq.sub)
    THEN NamesFoundIn(fsys, d, rq.sub, rq.base)
    ELSE <<>>

\* lines 751-756, one base path: the filename variants directly in it
Stage3In(fsys, rev, d, rq) == NamesFoundIn(fsys, d, <<>>, rq.base)

\* lines 759-778, one base path: a subdirectory named like the subpath but for case
Stage4In(fsys, rev, d, rq) ==
    IF rq.sub = <<>> THEN <<>>
    ELSE LET items == SubDirs(fsys, rev, d, <<>>)
         IN  Flatten([i \in 1..Len(items) |->
                        IF Lower(items[i]) = Lower(rq.sub[1])
                        THEN NamesFoundIn(fsys, d, <<items[i]>>, rq.base)
                        ELSE <<>>])

\* lines 782-806, one base path: every immediate subdirectory, and the subpath
\* nested one level below it
Stage5In(fsys, rev, d, rq) ==
    LET items == SubDirs(fsys, rev, d, <<>>)
    IN  Flatten([i \in 1..Len(items) |->
                   NamesFoundIn(fsys, d, <<items[i]>>, rq.base)
                   \o (IF rq.sub # <<>> /\ IsDir(fsys, d, <<items[i]>> \o rq.sub)
                       THEN NamesFoundIn(fsys, d, <<items[i]>> \o rq.sub, rq.base)
                       ELSE <<>>)])

\* line 821: the file name is a possible filename, exactly or but for case
NameMatches(file, base) ==
    LET names == PossibleFilenames(base)
    IN  \E i \in 1..Len(names) : file = names[i] \/ Lower(file) = Lower(names[i])

\* lines 824-835: with a subpath, the directory must contain or be named like it
DirAccepted(sub, rq) ==
    \/ rq.sub = <<>>
    \/ IsSubstring(Lower(rq.sub[1]), Lower(RelDir(sub)))
    \/ Lower(RelDirBase(sub)) = Lower(rq.sub[1])

\* lines 810-852, one base path: the recursive walk for the file, then for a
\* directory named like the subpath
Stage6In(fsys, rev, d, rq) ==
    LET visited == Walk(fsys, rev, d)
        byFile == Flatten([i \in 1..Len(visited) |->
                     LET files == FilesIn(fsys, rev, d, visited[i])
                     IN  Flatten([j \in 1..Len(files) |->
                            IF NameMatches(files[j], rq.base) /\ DirAccepted(visited[i], rq)
                            THEN <<Found(d, visited[i], files[j])>>
                            ELSE <<>>])])
        byDir == IF rq.sub = <<>> THEN <<>>
                 ELSE Flatten([i \in 1..Len(visited) |->
                        LET kids == SubDirs(fsys, rev, d, visited[i])
                        IN  Flatten([j \in 1..Len(kids) |->
                               IF Lower(kids[j]) = Lower(rq.sub[1])
                               THEN NamesFoundIn(fsys, d, Append(visited[i], kids[j]), rq.base)
                               ELSE <<>>])])
    IN  byFile \o byDir

\* what stage k returns when it looks in base path d alone
StageHit(k, fsys, rev, d, rq) ==
    FirstOf(CASE k = 1 -> Stage1In(fsys, rev, d, rq)
              [] k = 2 -> Stage2In(fsys, rev, d, rq)
              [] k = 3 -> Stage3In(fsys, rev, d, rq)
              [] k = 4 -> Stage4In(fsys, rev, d, rq)
              [] k = 5 -> Stage5In(fsys, rev, d, rq)
              [] k = 6 -> Stage6In(fsys, rev, d, rq))

Stages == 1..6

\* a cascade that exhausts every stage in one base path before the next path
ResolveInDirs_DepthFirst(dirs, fsys, rev, rq) ==
    FirstOf(Flatten([i \in 1..Len(dirs) |->
               Flatten([k \in Stages |->
                  LET h == StageHit(k, fsys, rev, dirs[i], rq)
                  IN  IF h.found THEN <<h>> ELSE <<>>])]))

\* lines 728-852: stage after stage, each over every base path in list order
ResolveInDirs(dirs, fsys, rev, rq) ==
    FirstOf(Flatten([k \in Stages |->
               Flatten([i \in 1..Len(dirs) |->
                  LET h == StageHit(k, fsys, rev, dirs[i], rq)
                  IN  IF h.found THEN <<h>> ELSE <<>>])]))

\* lines 855-861: the alternate types
AlternateTypes(t) ==
    CASE t = "checkpoints" -> <<"loras", "vae", "diffusion_models">>
      [] t = "loras" -> <<"checkpoints", "embedding">>
      [] t = "vae" -> <<"checkpoints">>
      [] t = "embedding" -> <<"loras">>
      [] t = "controlnet" -> <<"checkpoints">>
      [] OTHER -> <<>>

\* lines 867-893, one base path of an alternate type
AlternateIn(fsys, rev, d, rq) ==
    (IF rq.sub # <<>> /\ IsDir(fsys, d, rq.sub)
     THEN NamesFoundIn(fsys, d, rq.sub, rq.base) ELSE <<>>)
    \o NamesFoundIn(fsys, d, <<>>, rq.base)
    \o (LET visited == Walk(fsys, rev, d)
        IN  Flatten([i \in 1..Len(visited) |->
               LET files == FilesIn(fsys, rev, d, visited[i])
               IN  Flatten([j \in 1..Len(files) |->
                      IF NameMatches(files[j], rq.base)
                      THEN <<Found(d, visited[i], files[j])>>
                      ELSE <<>>])]))

\* lines 854-893: step 7
ResolveAlternates(paths, fsys, rev, t, rq) ==
    LET alts == AlternateTypes(t)
    IN  FirstOf(Flatten([a \in 1..Len(alts) |->
                   IF alts[a] \in DOMAIN paths
                   THEN Flatten([i \in 1..Len(paths[alts[a]]) |->
                           AlternateIn(fsys, rev, paths[alts[a]][i], rq)])
                   ELSE <<>>]))

\* lines 650-897.  The requests are relative names and the types lower-case;
\* a type without configured paths and without a configured alias has no result
ResolveModelPath(paths, fsys, rev, t, rq) ==
    IF t \notin DOMAIN paths THEN NotFound
    ELSE LET h == ResolveInDirs(paths[t], fsys, rev, rq)
         IN  IF h.found THEN h ELSE ResolveAlternates(paths, fsys, rev, t, rq)

-----------------------------------------------------------------------------
(* The resolver called on a request, once and again *)

RECURSIVE SubsetsUpTo(_, _)
SubsetsUpTo(S, n) ==
    IF n = 0 THEN {{}}
    ELSE LET smaller == SubsetsUpTo(S, n - 1)
         IN  smaller \cup {T \cup {x} : T \in smaller, x \in S}

\* no assembly run is in progress
AsmIdle ==
    /\ pc = "Idle"
    /\ rootState = "ok"
    /\ workflowExists = TRUE
    /\ managerInstalled = FALSE
    /\ include_manager = FALSE
    /\ pkgDirExists = FALSE
    /\ pkgTree = {}
    /\ outDirTouched = FALSE
    /\ archive = FALSE
    /\ result = "unset"
    /\ catalog = {}
    /\ custom_node_ids = {}
    /\ model_references = {}
    /\ pluginQueue = <<>>
    /\ custom_nodes_processed = <<>>
    /\ discoverQueue = <<>>
    /\ models_by_type = EmptyByType
    /\ models_to_process = EmptyByType
    /\ models_processed = EmptyByType
    /\ external_models = <<>>
    /\ manifest = NoManifest
    /\ copyDone = {}
    /\ copyFailed = {}
    /\ consulted = [r \in ModelRefs |-> 0]
    /\ answers = [r \in ModelRefs |-> <<>>]
    /\ phaseLog = <<>>
    /\ nodes_structure = "unset"
    /\ parse_report = "none"
    /\ requirements_collector = NoCollector

ResolveInit ==
    /\ AsmIdle
    /\ LaterIdle("none")
    /\ model_paths = DefaultModelPaths
    /\ reqType \in {"checkpoints", "loras"}
    /\ reqName \in [sub : RefSubdirs, base : RefBases]
    /\ fs \in SubsetsUpTo(PathUniverse(reqName.base), MaxFiles)
    /\ enumReversed \in BOOLEAN
    /\ resolveCount = 0
    /\ firstResult = NotFound
    /\ lastResult = NotFound

\* a resolver that moves the directories of the type it searched to a new order
PathsAfterResolve_Reordered(paths, t) ==
    IF t \in DOMAIN paths THEN [paths EXCEPT ![t] = Reverse(@)] ELSE paths

\* self.model_paths after a call: _resolve_model_path only reads it (lines
\* 670-693 rebind the local model_type)
PathsAfterResolve(paths, t) == paths

\* one call of _resolve_model_path(model_type, model_name)
ResolveCall ==
    /\ resolveCount < MaxResolves
    /\ LET r == ResolveModelPath(model_paths, fs, enumReversed, reqType, reqName)
       IN  /\ lastResult' = r
           /\ firstResult' = IF resolveCount = 0 THEN r ELSE firstResult
    /\ model_paths' = PathsAfterResolve(model_paths, reqType)
    /\ resolveCount' = resolveCount + 1
    /\ UNCHANGED <<fs, enumReversed, reqType, reqName>>
    /\ UNCHANGED nonResVars

ResolveNext == ResolveCall

SpecResolve == ResolveInit /\ [][ResolveNext]_vars

-----------------------------------------------------------------------------
(* Properties of the resolver *)

\* C8: every cascade stage is tried against all base directories of the
\* category before the next stage: whenever some stage matches in some
\* directory, the result is the match of the earliest stage that matches
\* anywhere, and among the directories where that stage matches, of the
\* earliest listed one, even when a later stage matches in an earlier directory.
C8_StageBeforeDirectory ==
    (resolveCount >= 1 /\ reqType \in DOMAIN model_paths) =>
        LET dirs == model_paths[reqType]
            hit(k, i) == StageHit(k, fs, enumReversed, dirs[i], reqName)
            hits == {h \in Stages \X (1..Len(dirs)) : hit(h[1], h[2]).found}
        IN  hits # {} =>
              \E h \in hits :
                 /\ \A g \in hits : h[1] < g[1] \/ (h[1] = g[1] /\ h[2] <= g[2])
                 /\ lastResult = hit(h[1], h[2])

\* a resolution that returned a match below the second directory although a
\* later stage matches in the first
C8_Witness ==
    /\ resolveCount >= 1
    /\ reqType = "checkpoints"
    /\ lastResult.found /\ lastResult.dir = "D2"
    /\ \E k \in Stages : StageHit(k, fs, enumReversed, "D1", reqName).found

\* C9 as stated: for a name without extension that reaches stage 3, whenever
\* one of name.safetensors, name.ckpt, name.pt lies directly in a base
\* directory, the result is the first of the three, in that order, that exists.
C9_FirstExistingGuessWins ==
    (/\ resolveCount >= 1
     /\ reqType \in DOMAIN model_paths
     /\ reqName.base = N_bare
     /\ \A k \in {1, 2} : \A i \in 1..Len(model_paths[reqType]) :
           ~StageHit(k, fs, enumReversed, model_paths[reqType][i], reqName).found) =>
        LET dirs == model_paths[reqType]
            guesses == <<N_st, N_ckpt, N_exact>>
            onDisk == {j \in 1..3 : \E i \in 1..Len(dirs) : Exists(fs, dirs[i], <<>>, guesses[j])}
        IN  onDisk # {} =>
              /\ lastResult.found
              /\ lastResult.sub = <<>>
              /\ lastResult.name = guesses[CHOOSE j \in onDisk : \A m \in onDisk : j <= m]

\* C9: for a name without extension that reaches stage 3, the base directories
\* are taken in list order, and in each one the candidates are the name and its
\* case and space variants and then name.safetensors, name.ckpt, name.pt in
\* that order; the result is the first candidate that exists in the first
\* directory that holds any.
C9_GuessOrderPerDirectory ==
    (/\ resolveCount >= 1
     /\ reqType \in DOMAIN model_paths
     /\ reqName.base = N_bare
     /\ \A k \in {1, 2} : \A i \in 1..Len(model_paths[reqType]) :
           ~StageHit(k, fs, enumReversed, model_paths[reqType][i], reqName).found) =>
        LET dirs == model_paths[reqType]
            cands == <<N_bare, N_barelow, N_bare, N_barelow,
                       <<"M", " ", "a">>, <<"m", " ", "a">>,
                       N_st, N_ckpt, N_exact>>
            held(i) == {j \in 1..Len(cands) : Exists(fs, dirs[i], <<>>, cands[j])}
            holders == {i \in 1..Len(dirs) : held(i) # {}}
        IN  holders # {} =>
              LET i == CHOOSE i \in holders : \A m \in holders : i <= m
                  j == CHOOSE j \in held(i) : \A m \in held(i) : j <= m
              IN  lastResult = Found(dirs[i], <<>>, cands[j])

\* stage 3 returned name.safetensors from a directory that also holds name.ckpt
C9_Witness ==
    /\ resolveCount >= 1
    /\ reqName = [sub |-> <<>>, base |-> N_bare]
    /\ lastResult.found
    /\ lastResult.sub = <<>> /\ lastResult.name = N_st
    /\ Exists(fs, lastResult.dir, <<>>, N_ckpt)

-----------------------------------------------------------------------------
(* The plugin catalog and plugin resolution (simplified_workflow_parser.py) *)

\* plugin folders that may be installed below custom_nodes
F_upscale == <<"Upscale", "-", "Nodes">>
F_pack == <<"pack">>
F_cpack == <<"comfyui", "-", "pack">>
Folders == {F_upscale, F_pack, F_cpack}

\* what a metadata file may declare as id, and a Python source as node id
MetadataIdLists == {<<>>, << <<"Pack">> >>}
SourceIdLists == {<<>>, << <<"Scaler">> >>}

\* the identifiers a workflow may carry
Id_unknown == <<"unknown", "/", "comfyui", "-", "upscale", "-", "nodes">>
RawIds == {F_upscale, F_pack, F_cpack, Id_unknown, <<"upscale", "_", "nodes">>, <<"zzz">>}

\* a dict: (key, value) pairs in insertion order; assigning to a key that is
\* there keeps its place
HasKey(d, k) == \E i \in 1..Len(d) : d[i][1] = k
Get(d, k) == d[CHOOSE i \in 1..Len(d) : d[i][1] = k][2]
Put(d, k, v) ==
    IF HasKey(d, k)
    THEN LET i == CHOOSE i \in 1..Len(d) : d[i][1] = k
         IN  SubSeq(d, 1, i - 1) \o << <<k, v>> >> \o SubSeq(d, i + 1, Len(d))
    ELSE Append(d, <<k, v>>)

\* a dict that keeps the value a key got first
PutAll_KeepFirst(d, ks, v) ==
    LET IsFresh(i) == /\ ~HasKey(d, ks[i])
                      /\ \A j \in 1..(i - 1) : ks[j] # ks[i]
        fresh == SelectSeq([i \in 1..Len(ks) |-> i], IsFresh)
    IN  d \o [n \in 1..Len(fresh) |-> <<ks[fresh[n]], v>>]

\* d after d[k] = v for every k of ks in turn
PutAll(d, ks, v) ==
    LET IsFresh(i) == /\ ~HasKey(d, ks[i])
                      /\ \A j \in 1..(i - 1) : ks[j] # ks[i]
        fresh == SelectSeq([i \in 1..Len(ks) |-> i], IsFresh)
    IN  [i \in 1..Len(d) |->
            IF \E j \in 1..Len(ks) : ks[j] = d[i][1] THEN <<d[i][1], v>> ELSE d[i]]
        \o [n \in 1..Len(fresh) |-> <<ks[fresh[n]], v>>]

\* a catalog that registers the folder name as it is spelled
FolderKey_CaseKept(f) == f

\* line 44: the folder name, lower-cased, is a key
FolderKey(f) == Lower(f)

\* a catalog whose namespaced form is the variation itself
NamespacedKey_Bare(v) == v

\* line 110: the key unknown/<variation>
NamespacedKey(v) == <<"unknown", "/">> \o v

\* lines 102-103
common_prefixes == << <<>>, <<"comfyui", "-">>, <<"comfyui", "_">>, <<"sd", "-">>, <<"sd", "_">> >>
common_suffixes == << <<>>, <<"-", "nodes">>, <<"_", "nodes">>, <<"-", "comfyui">>, <<"_", "comfyui">> >>

\* lines 100-110: the keys made from the folder name, in the order assigned
VariationKeys(f) ==
    Flatten([i \in 1..Len(common_prefixes) |->
       Flatten([j \in 1..Len(common_suffixes) |->
          LET variation == common_prefixes[i] \o Lower(f) \o common_suffixes[j]
          IN  (IF variation # Lower(f) THEN <<variation>> ELSE <<>>)
              \o <<NamespacedKey(variation)>>])])

\* lines 46-67: the ids the metadata files declare, lower-cased
MetadataKeys(meta) == [i \in 1..Len(meta) |-> Lower(meta[i])]

\* lines 69-98: the ids the Python sources declare, and <folder>/<id> for an
\* id without a slash
SourceKeys(f, src) ==
    Flatten([i \in 1..Len(src) |->
       <<Lower(src[i])>>
       \o (IF ~IsSubstring(<<"/">>, src[i])
           THEN <<Lower(f) \o <<"/">> \o Lower(src[i])>>
           ELSE <<>>)])

\* lines 38-110, one folder: every key assigned for it, in order
KeysOf(f, meta, src) ==
    <<FolderKey(f)>> \o MetadataKeys(meta) \o SourceKeys(f, src) \o VariationKeys(f)

\* str.split('/')[-1]
LastSegment(n) ==
    LET slashes == {i \in 1..Len(n) : n[i] = "/"}
    IN  IF slashes = {} THEN n
        ELSE SubSeq(n, (CHOOSE i \in slashes : \A j \in slashes : j <= i) + 1, Len(n))

\* lines 247-249: the partial-match strategies
FuzzyMatch(node_id, package_id) ==
    \/ IsSubstring(node_id, package_id)
    \/ IsSubstring(package_id, node_id)
    \/ Replace(node_id, "-", "_") = Replace(package_id, "-", "_")
    \/ LastSegment(node_id) = LastSegment(package_id)

\* lines 237-252, one identifier: the direct lookup, else the first catalog
\* entry, in insertion order, that matches partially
ResolveNodeIdIn(d, node_id) ==
    IF HasKey(d, node_id)
    THEN [via |-> "exact", to |-> Get(d, node_id)]
    ELSE LET m == {i \in 1..Len(d) : FuzzyMatch(node_id, d[i][1])}
         IN  IF m # {}
             THEN [via |-> "fuzzy", to |-> d[CHOOSE i \in m : \A j \in m : i <= j][2]]
             ELSE [via |-> "none", to |-> <<>>]

PlugInit ==
    /\ AsmIdle /\ ResIdle /\ LaterIdle("plugins")
    /\ \E S \in SUBSET Folders : installed \in Perms(S)
    /\ metadata_ids \in [Folders -> MetadataIdLists]
    /\ source_ids \in [Folders -> SourceIdLists]
    /\ \A f \in Folders \ SeqToSet(installed) : metadata_ids[f] = <<>> /\ source_ids[f] = <<>>
    /\ scanQueue = installed
    /\ custom_node_packages = <<>>
    /\ raw_node_id \in RawIds
    /\ via = "pending"
    /\ resolved_to = <<>>

\* _get_custom_node_packages, one iteration of the loop over os.listdir
RegisterPackage ==
    /\ scanQueue # <<>>
    /\ LET f == Head(scanQueue)
       IN  custom_node_packages' =
              PutAll(custom_node_packages, KeysOf(f, metadata_ids[f], source_ids[f]), f)
    /\ scanQueue' = Tail(scanQueue)
    /\ UNCHANGED <<installed, metadata_ids, source_ids, raw_node_id, via, resolved_to>>
    /\ UNCHANGED nonPlugVars

\* parse_workflow: the identifier is lower-cased when harvested (line 188) and
\* resolved against the finished catalog (lines 237-252)
ResolveNodeId ==
    /\ scanQueue = <<>>
    /\ via = "pending"
    /\ LET r == ResolveNodeIdIn(custom_node_packages, Lower(raw_node_id))
       IN  via' = r.via /\ resolved_to' = r.to
    /\ UNCHANGED <<installed, metadata_ids, source_ids, scanQueue, custom_node_packages,
                   raw_node_id>>
    /\ UNCHANGED nonPlugVars

PlugNext == RegisterPackage \/ ResolveNodeId

SpecPlugins == PlugInit /\ [][PlugNext]_vars

\* C11: an identifier that equals, but for case, the folder name of an
\* installed plugin is resolved by the direct lookup in the catalog, never by
\* the partial-match loop.
C11_FolderNameResolvesExactly ==
    (/\ via \notin {"pending", "idle"}
     /\ \E i \in 1..Len(installed) : Lower(raw_node_id) = Lower(installed[i]))
        => via = "exact"

\* the identifier Upscale-Nodes, spelled as the folder is, resolved to the folder
C11_Witness ==
    /\ via = "exact"
    /\ raw_node_id = F_upscale
    /\ resolved_to = F_upscale

\* C12 as stated: with Upscale-Nodes installed, unknown/comfyui-upscale-nodes
\* is resolved to it by the partial-match loop, not by the direct lookup.
C12_ResolvedByFuzzyMatch ==
    (/\ via \notin {"pending", "idle"}
     /\ raw_node_id = Id_unknown
     /\ F_upscale \in SeqToSet(installed))
        => (via = "fuzzy" /\ resolved_to = F_upscale)

\* C12: with Upscale-Nodes installed, unknown/comfyui-upscale-nodes is
\* resolved to it by the direct lookup: the catalog holds that very key, made
\* from the folder name with the prefix comfyui- and the namespace unknown/.
C12_ResolvedByGeneratedKey ==
    (/\ via \notin {"pending", "idle"}
     /\ raw_node_id = Id_unknown
     /\ F_upscale \in SeqToSet(installed))
        => (via = "exact" /\ resolved_to = F_upscale)

\* unknown/comfyui-upscale-nodes resolved while only Upscale-Nodes is installed
C12_Witness ==
    /\ via = "exact"
    /\ raw_node_id = Id_unknown
    /\ installed = <<F_upscale>>
    /\ resolved_to = F_upscale

\* the folders of the enumeration that register key k, by position
Registering(k) ==
    {i \in 1..Len(installed) :
        LET keys == KeysOf(installed[i], metadata_ids[installed[i]], source_ids[installed[i]])
        IN  \E n \in 1..Len(keys) : keys[n] = k}

\* C27 as stated: in the finished catalog the lower-cased name of every
\* installed folder maps to that folder.
C27_OwnKeyMapsToOwnFolder ==
    scanQueue = <<>> =>
        \A i \in 1..Len(installed) :
            Get(custom_node_packages, Lower(installed[i])) = installed[i]

\* C27: in the finished catalog the lower-cased name of every installed folder
\* maps to the folder enumerated last among those that register that key: to
\* the folder itself exactly when no folder enumerated after it registers it.
C27_OwnKeyMapsToLastWriter ==
    scanQueue = <<>> =>
        \A i \in 1..Len(installed) :
            LET k == Lower(installed[i])
                writers == Registering(k)
                last == CHOOSE n \in writers : \A m \in writers : m <= n
            IN  /\ HasKey(custom_node_packages, k)
                /\ Get(custom_node_packages, k) = installed[last]
                /\ (Get(custom_node_packages, k) = installed[i]) = (last = i)

\* comfyui-pack enumerated before pack: the key comfyui-pack maps to pack
C27_Witness ==
    /\ scanQueue = <<>>
    /\ installed = <<F_cpack, F_pack>>
    /\ Get(custom_node_packages, Lower(F_cpack)) = F_pack
    /\ Get(custom_node_packages, Lower(F_pack)) = F_pack

-----------------------------------------------------------------------------
(* WorkflowParser.parse_workflow: the classification of the widget values  *)
(* of one node and the resolution of what was found                        *)

\* the keywords of the classifier are tokens of the strings below, so that a
\* keyword is in a string exactly when its tokens are a run of the string's
\* lines 474-540: type_mapping, in the order of the dict literal
type_mapping ==
    << << <<"checkpoint">>, "checkpoints" >>,
       << <<"checkpoint", "load", "er">>, "checkpoints" >>,
       << <<"load">>, "checkpoints" >>,
       << <<"sdxl">>, "checkpoints" >>,
       << <<"model">>, "checkpoints" >>,
       << <<"load", "checkpoint">>, "checkpoints" >>,
       << <<"diffus">>, "checkpoints" >>,
       << <<"vae">>, "vae" >>,
       << <<"vae", "load", "er">>, "vae" >>,
       << <<"load", "vae">>, "vae" >>,
       << <<"variational">>, "vae" >>,
       << <<"encoder">>, "vae" >>,
       << <<"decoder">>, "vae" >>,
       << <<"clip">>, "clip" >>,
       << <<"load", "clip">>, "clip" >>,
       << <<"clip", "load", "er">>, "clip" >>,
       << <<"clip", "vision">>, "clip_vision" >>,
       << <<"vision", "load", "er">>, "clip_vision" >>,
       << <<"load", "cv">>, "clip_vision" >>,
       << <<"lora">>, "loras" >>,
       << <<"lora", "load", "er">>, "loras" >>,
       << <<"load", "lora">>, "loras" >>,
       << <<"loha">>, "loras" >>,
       << <<"lycoris">>, "loras" >>,
       << <<"embedding">>, "embeddings" >>,
       << <<"textualinversion">>, "embeddings" >>,
       << <<"load", "embedding">>, "embeddings" >>,
       << <<"ti">>, "embeddings" >>,
       << <<"hypernetwork">>, "hypernetworks" >>,
       << <<"load", "hyper">>, "hypernetworks" >>,
       << <<"control", "net">>, "controlnet" >>,
       << <<"load", "control">>, "controlnet" >>,
       << <<"control">>, "controlnet" >>,
       << <<"upscale">>, "upscale_models" >>,
       << <<"upscale", "r">>, "upscale_models" >>,
       << <<"esrgan">>, "upscale_models" >>,
       << <<"load", "upscale">>, "upscale_models" >>,
       << <<"facedetection">>, "insightface" >>,
       << <<"insightface">>, "insightface" >>,
       << <<"facerestore">>, "facerestore_models" >>,
       << <<"gfpgan">>, "facerestore_models" >>,
       << <<"codeformer">>, "facerestore_models" >>,
       << <<"ultralytics">>, "ultralytics" >>,
       << <<"yolo">>, "ultralytics" >>,
       << <<"detection">>, "ultralytics" >>,
       << <<"llm">>, "llm" >>,
       << <<"textgen">>, "llm" >>,
       << <<"languagemodel">>, "llm" >>,
       << <<"sam">>, "sams" >>,
       << <<"segment">>, "sams" >>,
       << <<"segment", "anything">>, "sams" >>
    >>

\* 'kw' in s
Has(kw, s) == IsSubstring(kw, s)
HasAny(kws, s) == \E kw \in kws : Has(kw, s)

\* a guess that prefers the rule listed last among those that match
GuessModelType_LastRule(ntype) ==
    LET nt == Lower(ntype)
        hits == {i \in 1..Len(type_mapping) : Has(type_mapping[i][1], nt)}
    IN  IF hits = {} THEN None
        ELSE type_mapping[CHOOSE i \in hits : \A j \in hits : j <= i][2]

\* _guess_model_type: the first key of type_mapping that is in the node type
GuessModelType(ntype) ==
    LET nt == Lower(ntype)
        hits == {i \in 1..Len(type_mapping) : Has(type_mapping[i][1], nt)}
    IN  IF hits = {} THEN None
        ELSE type_mapping[CHOOSE i \in hits : \A j \in hits : i <= j][2]

\* a filename guess that takes a file for an adapter unless it names another type
GuessModelTypeFromFilename_LoraDefault(filename) ==
    IF Has(<<"vae">>, Lower(filename)) THEN "vae" ELSE "loras"

\* _guess_model_type_from_filename
GuessModelTypeFromFilename(filename) ==
    LET f == Lower(filename)
    IN  IF EndsWith(f, ".safetensors") \/ EndsWith(f, ".ckpt")
        THEN IF Has(<<"lora">>, f) THEN "loras"
             ELSE IF Has(<<"vae">>, f) THEN "vae"
             ELSE IF HasAny({<<"embedding">>, <<"embed">>, <<"/", "embeddings", "/">>}, f)
                  THEN "embeddings"
             ELSE IF HasAny({<<"control", "net">>, <<"control", "_">>, <<"/", "control", "/">>}, f)
                  THEN "controlnet"
             ELSE IF /\ Has(<<"inpaint">>, f)
                     /\ ~HasAny({<<"sd15", "_", "inpaint">>, <<"sd", "_", "inpaint">>}, f)
                  THEN "controlnet"
             ELSE IF /\ Has(<<"clip">>, f)
                     /\ HasAny({<<"vision">>, <<"/", "clip", "_", "vision", "/">>}, f)
                  THEN "clip_vision"
             ELSE IF HasAny({<<"clip">>, <<"/", "clip", "/">>}, f) THEN "clip"
             ELSE "checkpoints"
        ELSE IF (EndsWith(f, ".pt") \/ EndsWith(f, ".pth"))
                /\ HasAny({<<"sam">>, <<"/", "sam", "/">>}, f)
             THEN "sams"
        ELSE IF (EndsWith(f, ".pt") \/ EndsWith(f, ".pth"))
                /\ HasAny({<<"gfpgan">>, <<"codeformer">>, <<"face">>,
                           <<"/", "facerestore", "/">>}, f)
             THEN "facerestore_models"
        ELSE IF (EndsWith(f, ".pt") \/ EndsWith(f, ".pth"))
                /\ HasAny({<<"upscale">>, <<"esrgan">>, <<"/", "upscale", "r", "/">>,
                           <<"/", "upscale", "_", "models", "/">>}, f)
             THEN "upscale_models"
        ELSE IF EndsWith(f, ".onnx")
                /\ HasAny({<<"inswapper">>, <<"insight">>, <<"/", "insightface", "/">>}, f)
             THEN "insightface"
        ELSE "checkpoints"

\* a refinement that never proposes a second type
RefineModelType_Never(ntype, idx, total_values, value) == None

\* _refine_model_type(node_type, value_idx, total_values, value)
RefineModelType(ntype, idx, total_values, value) ==
    LET nt == Lower(ntype)
        v  == Lower(value)
    IN  IF HasAny({<<"lora">>, <<"lycoris">>}, nt) /\ total_values >= 3
        THEN IF idx = 0 /\ (Has(<<"checkpoint">>, v) \/ ~HasAny({<<"lora">>, <<"lyco">>}, v))
             THEN "checkpoints"
             ELSE IF HasAny({<<"lora">>, <<"lyco">>}, v) \/ idx \in {1, 2}
             THEN "loras"
             ELSE None
        ELSE IF Has(<<"control">>, nt) /\ total_values >= 2
        THEN IF idx = 0 /\ HasAny({<<"sd">>, <<"stable">>}, v)
             THEN "checkpoints"
             ELSE IF Has(<<"control">>, v) \/ idx = 1
             THEN "controlnet"
             ELSE None
        ELSE IF Has(<<"upscale">>, nt) /\ total_values >= 2
        THEN "upscale_models"
        ELSE IF Has(<<"load", "er">>, nt) /\ total_values >= 2
        THEN IF Has(<<"vae">>, v) THEN "vae"
             ELSE IF Has(<<"lora">>, v) THEN "loras"
             ELSE IF Has(<<"control">>, v) THEN "controlnet"
             ELSE IF Has(<<"embed">>, v) THEN "embeddings"
             ELSE None
        ELSE None

\* the node types: none, a loader of adapters, a stack of adapters
T_none == <<>>
T_LoraLoader == <<"Lora", "Load", "er">>
T_lora_stack == <<"lora", "_", "stack">>
NodeTypes == {T_none, T_LoraLoader, T_lora_stack}

\* the widget values: model references, one of them below a subdirectory
V_sdxl == B_sdxl
V_mylora == <<"styles", "/">> \o B_mylora
V_vae == B_vae
WidgetValues == {V_sdxl, V_mylora, V_vae}

\* a node has at most this many widget values
MaxValues == 3

\* the number of characters of a token; a token not listed is one character
TokLen(c) ==
    CASE c \in {".safetensors", ".SAFETENSORS"} -> 12
      [] c \in {"styles"} -> 6
      [] c \in {"model", ".ckpt", ".onnx"} -> 5
      [] c \in {"base", "lora", "none", "None", ".txt", ".pth", ".bin"} -> 4
      [] c \in {"vae", "big", ".pt"} -> 3
      [] c \in {"sd", "xl", "my", "ab"} -> 2
      [] OTHER -> 1

\* len(value)
RECURSIVE StrLen(_)
StrLen(value) == IF value = <<>> THEN 0 ELSE TokLen(Head(value)) + StrLen(Tail(value))

\* line 360: the literals that are no model file
sentinel_literals ==
    {<<"randomize">>, <<"true">>, <<"false">>, <<"enable">>, <<"disable">>, <<"none">>}
IsSentinel(value) == Lower(value) \in sentinel_literals

\* a length test that also drops a value of five characters
TooShort_AtFive(value) == StrLen(value) <= 5

\* line 364
TooShort(value) == StrLen(value) < 5

\* lines 368-369: the value, lower-cased, ends with a model extension
model_extensions == {".safetensors", ".ckpt", ".pt", ".pth", ".bin", ".onnx", ".msgpack"}
HasModelExtension(value) == \E ext \in model_extensions : EndsWith(Lower(value), ext)

\* os.path.dirname and os.path.basename of a reference (lines 707-710): the
\* directories before the last separator and the name after it
RECURSIVE SplitPath(_, _, _)
SplitPath(value, dirs, cur) ==
    IF value = <<>> THEN [sub |-> dirs, base |-> cur]
    ELSE IF Head(value) = "/" THEN SplitPath(Tail(value), Append(dirs, cur), <<>>)
    ELSE SplitPath(Tail(value), dirs, Append(cur, Head(value)))

RequestOf(value) == SplitPath(value, <<>>, <<>>)

\* model_paths as _load_model_paths builds it without an override file, for
\* the types the node's values are filed under (lines 44-65)
ParserModelPaths ==
    [checkpoints |-> <<"D1">>, loras |-> <<"L1">>, vae |-> <<"V1">>]

\* where the files of the node's references may lie
ClsPathUniverse ==
    {[dir |-> "D1", sub |-> <<>>, name |-> B_sdxl],
     [dir |-> "D1", sub |-> <<D_x>>, name |-> B_sdxl],
     [dir |-> "L1", sub |-> <<>>, name |-> B_sdxl],
     [dir |-> "L1", sub |-> <<D_styles>>, name |-> B_mylora],
     [dir |-> "L1", sub |-> <<D_Styles>>, name |-> B_mylora],
     [dir |-> "L1", sub |-> <<>>, name |-> B_mylora],
     [dir |-> "L1", sub |-> <<D_x>>, name |-> B_mylora],
     [dir |-> "L1", sub |-> <<D_x, D_styles>>, name |-> B_mylora],
     [dir |-> "L1", sub |-> <<D_x, D_Styles>>, name |-> B_mylora],
     [dir |-> "D1", sub |-> <<D_styles>>, name |-> B_mylora],
     [dir |-> "V1", sub |-> <<>>, name |-> B_vae]}

SeqsUpTo(S, n) == UNION {[1..k -> S] : k \in 1..n}

ClsInit ==
    /\ AsmIdle
    /\ LaterIdle("classify")
    /\ model_paths = ParserModelPaths
    /\ fs \in SubsetsUpTo(ClsPathUniverse, MaxFiles)
    /\ enumReversed \in BOOLEAN
    /\ reqType = "checkpoints"
    /\ reqName = [sub |-> <<>>, base |-> <<>>]
    /\ resolveCount = 0
    /\ firstResult = NotFound
    /\ lastResult = NotFound
    /\ cls_pc = "node"
    /\ node_type \in NodeTypes
    /\ widgets_values \in SeqsUpTo(WidgetValues, MaxValues)
    /\ value_idx = 0
    /\ model_type = None
    /\ found_models = {}
    /\ labelled = <<>>
    /\ resolved_models = {}

\* lines 350-352: the type guessed from the node type, once for the node
GuessFromNode ==
    /\ cls_pc = "node"
    /\ model_type' = GuessModelType(node_type)
    /\ cls_pc' = "values"
    /\ UNCHANGED <<node_type, widgets_values, value_idx, found_models, labelled,
                   resolved_models>>
    /\ UNCHANGED nonClsVars

\* lines 355-386: one iteration of the loop over the widget values
ClassifyValue ==
    /\ cls_pc = "values"
    /\ value_idx < Len(widgets_values)
    /\ LET value == widgets_values[value_idx + 1]
           mt == IF model_type = None
                 THEN GuessModelTypeFromFilename(value)
                 ELSE model_type
           alt == RefineModelType(node_type, value_idx, Len(widgets_values), value)
           types == {mt} \cup (IF alt # None /\ alt # mt THEN {alt} ELSE {})
       IN  IF value # <<>> /\ ~IsSentinel(value) /\ ~TooShort(value) /\ HasModelExtension(value)
           THEN /\ model_type' = mt
                /\ found_models' = found_models \cup {<<t, value>> : t \in types}
                /\ labelled' = Append(labelled, types)
           ELSE /\ labelled' = Append(labelled, {})
                /\ UNCHANGED <<model_type, found_models>>
    /\ value_idx' = value_idx + 1
    /\ UNCHANGED <<cls_pc, node_type, widgets_values, resolved_models>>
    /\ UNCHANGED nonClsVars

\* the stage of _resolve_model_path whose return statement gives the result:
\* the first of the stages 1-6 with a hit in some base path, else step 7
ReturningStage(paths, fsys, rev, t, rq) ==
    LET hit == {k \in Stages : \E i \in 1..Len(paths[t]) :
                                  StageHit(k, fsys, rev, paths[t][i], rq).found}
    IN  IF hit = {} THEN 7 ELSE CHOOSE k \in hit : \A j \in hit : k <= j

\* lines 432-441: every name found is resolved under every type it was filed
\* under, and kept with its path when it has one
ResolveFound ==
    /\ cls_pc = "values"
    /\ value_idx = Len(widgets_values)
    /\ resolved_models' =
          {[type |-> fm[1], name |-> fm[2],
            path |-> ResolveModelPath(model_paths, fs, enumReversed, fm[1], RequestOf(fm[2])),
            stage |-> ReturningStage(model_paths, fs, enumReversed, fm[1], RequestOf(fm[2]))] :
             fm \in {x \in found_models :
                       ResolveModelPath(model_paths, fs, enumReversed, x[1],
                                        RequestOf(x[2])).found}}
    /\ cls_pc' = "done"
    /\ UNCHANGED <<node_type, widgets_values, value_idx, model_type, found_models, labelled>>
    /\ UNCHANGED nonClsVars

ClsNext == GuessFromNode \/ ClassifyValue \/ ResolveFound

SpecClassify == ClsInit /\ [][ClsNext]_vars

\* the types value number i of the node is filed under when nothing is known
\* of the values before it
LabelsAlone(ntype, values, i) ==
    LET g == GuessModelType(ntype)
        mt == IF g = None THEN GuessModelTypeFromFilename(values[i]) ELSE g
        alt == RefineModelType(ntype, i - 1, Len(values), values[i])
    IN  {mt} \cup (IF alt # None /\ alt # mt THEN {alt} ELSE {})

\* C13: the types a value is filed under are determined by the node type, the
\* value, its position and the number of values of its node, whatever the
\* other values of the node are.
C13_LabelsDependOnOwnInputsOnly ==
    \A i \in 1..Len(labelled) : labelled[i] = LabelsAlone(node_type, widgets_values, i)

\* the reference sd_xl_base.safetensors is the first value of a node without a type
ScenarioA == node_type = T_none /\ Len(widgets_values) >= 1 /\ widgets_values[1] = V_sdxl

\* the entry of result['models'] for a name under a type
ResolvedAs(t, value, path, stage) ==
    [type |-> t, name |-> value, path |-> path, stage |-> stage] \in resolved_models

\* C14 as stated: sd_xl_base.safetensors of a node without a type is filed
\* under checkpoints and, lying directly in the checkpoints directory, is
\* returned by stage 3.
C14_FoundByStage3 ==
    ScenarioA =>
        /\ Len(labelled) >= 1 => labelled[1] = {"checkpoints"}
        /\ (cls_pc = "done" /\ Exists(fs, "D1", <<>>, B_sdxl))
              => ResolvedAs("checkpoints", V_sdxl, Found("D1", <<>>, B_sdxl), 3)

\* C14: sd_xl_base.safetensors, first value of a node without a type, is filed
\* under checkpoints alone and, lying directly in the checkpoints directory, is
\* returned by stage 1, the exact path, before stage 3 is reached.
C14_FoundByExactPath ==
    ScenarioA =>
        /\ Len(labelled) >= 1 => labelled[1] = {"checkpoints"}
        /\ (cls_pc = "done" /\ Exists(fs, "D1", <<>>, B_sdxl))
              => ResolvedAs("checkpoints", V_sdxl, Found("D1", <<>>, B_sdxl), 1)

\* the file lies directly in the checkpoints directory and the node is resolved
C14_Witness ==
    /\ cls_pc = "done"
    /\ node_type = T_none
    /\ widgets_values = <<V_sdxl>>
    /\ labelled = <<{"checkpoints"}>>
    /\ Exists(fs, "D1", <<>>, B_sdxl)
    /\ ResolvedAs("checkpoints", V_sdxl, Found("D1", <<>>, B_sdxl), 1)

\* the reference styles/mylora.safetensors is the second of three values of a
\* node that loads adapters
ScenarioB ==
    /\ node_type \in {T_LoraLoader, T_lora_stack}
    /\ Len(widgets_values) = 3
    /\ widgets_values[2] = V_mylora

\* the places of mylora.safetensors below the adapter directory
InLoras(sub) == Exists(fs, "L1", sub, B_mylora)

\* C15 as stated: the reference is filed under loras, and is returned by stage
\* 2 when <lorasDir>/styles/mylora.safetensors exists and by stage 6 otherwise.
C15_Stage2ElseStage6 ==
    ScenarioB =>
        /\ Len(labelled) >= 2 => "loras" \in labelled[2]
        /\ cls_pc = "done" =>
              \A e \in resolved_models :
                 (e.type = "loras" /\ e.name = V_mylora /\ e.path.dir = "L1")
                    => e.stage = IF InLoras(<<D_styles>>) THEN 2 ELSE 6

\* C15: the reference is filed under loras, and under checkpoints too when the
\* node type contains 'load'; under loras it is returned by stage 1 when
\* <lorasDir>/styles/mylora.safetensors exists, and otherwise by the first of
\* the stages 3, 4, 5 and 6 that finds the file, stage 6 only when the file is
\* neither directly in the directory nor one or two levels below it in a place
\* the earlier stages look at.
C15_Stage1ElseFirstLaterStage ==
    ScenarioB =>
        /\ Len(labelled) >= 2 =>
              labelled[2] = IF node_type = T_LoraLoader THEN {"checkpoints", "loras"}
                            ELSE {"loras"}
        /\ cls_pc = "done" =>
              IF InLoras(<<D_styles>>)
              THEN ResolvedAs("loras", V_mylora, Found("L1", <<D_styles>>, B_mylora), 1)
              ELSE IF InLoras(<<>>)
              THEN ResolvedAs("loras", V_mylora, Found("L1", <<>>, B_mylora), 3)
              ELSE IF InLoras(<<D_Styles>>)
              THEN ResolvedAs("loras", V_mylora, Found("L1", <<D_Styles>>, B_mylora), 4)
              ELSE IF InLoras(<<D_x>>)
              THEN ResolvedAs("loras", V_mylora, Found("L1", <<D_x>>, B_mylora), 5)
              ELSE IF InLoras(<<D_x, D_styles>>)
              THEN ResolvedAs("loras", V_mylora, Found("L1", <<D_x, D_styles>>, B_mylora), 5)
              ELSE IF InLoras(<<D_x, D_Styles>>)
              THEN ResolvedAs("loras", V_mylora, Found("L1", <<D_x, D_Styles>>, B_mylora), 6)
              ELSE \A e \in resolved_models :
                      (e.type = "loras" /\ e.name = V_mylora) => e.stage = 7

\* the file lies directly in the adapter directory, not below styles, and is
\* returned by stage 3
C15_Witness ==
    /\ cls_pc = "done"
    /\ node_type = T_LoraLoader
    /\ Len(widgets_values) = 3
    /\ widgets_values[2] = V_mylora
    /\ labelled[2] = {"checkpoints", "loras"}
    /\ ~InLoras(<<D_styles>>)
    /\ ResolvedAs("loras", V_mylora, Found("L1", <<>>, B_mylora), 3)

-----------------------------------------------------------------------------
(* The assembly run on a document without nodes, and the plugin loop *)

\* the run is scheduled until it ends: create_package is straight-line code
\* and every prompt is answered
SpecLive == Init /\ [][Next]_vars /\ WF_vars(Next)

\* parse_workflow returned and had found no node array in the document
NoNodeArray == nodes_structure \notin {"unset", "found"}

\* nothing was harvested, no plugin and no model was copied or deferred, the
\* run did not end early, and a manifest on disk is empty
EmptyRun ==
    /\ custom_node_ids = {}
    /\ model_references = {}
    /\ pc \notin {"Aborted", "Failed", "Cancelled"}
    /\ copyDone = {} /\ copyFailed = {}
    /\ manifest.written =>
          /\ manifest.installation_order = <<>>
          /\ manifest.included_models = EmptyByType
          /\ manifest.external_models = <<>>
          /\ manifest.dependencies = {}

C17_PluginsCopiedApartAndOnce ==
    [][(pc = "CopyingPluginsLoop" /\ pluginQueue # <<>> /\ pluginQueue' = Tail(pluginQueue))
          => LET p == Head(pluginQueue)
             IN  /\ p \notin copyDone \cup copyFailed
                 /\ \A f \in pkgTree' \ pkgTree :
                       Len(f) >= 2 /\ f[1] = "custom_nodes" /\ f[2] = p
                 /\ \A f \in pkgTree :
                       (Len(f) >= 2 /\ f[1] = "custom_nodes") => f[2] # p]_vars

\* the plugin of the workflow and the manager added to it were both copied
C17_Witness ==
    /\ pc = "ResolvingModels"
    /\ include_manager
    /\ custom_node_ids = {"nodea"}
    /\ copyDone = {"NodeA", Manager}
    /\ \A p \in copyDone : PluginFiles(p) \subseteq pkgTree

-----------------------------------------------------------------------------
(* InteractivePackageCreator._copy_tree_filtered *)

\* lines 814-819
skip_dirs ==
    {".git", "__pycache__", ".github", ".pytest_cache", ".vscode", "node_modules",
     "dist", "build", ".ipynb_checkpoints", "venv", "env", ".env", ".venv",
     ".mypy_cache", ".ruff_cache", ".egg-info", "__MACOSX", ".DS_Store"}

\* lines 822-829: the patterns '*<suffix>', by the tokens the name must end with
skip_suffixes ==
    {<<".pyc">>, <<".pyo">>, <<".so">>, <<".egg">>, <<".whl">>, <<".zip">>,
     <<".tar", ".gz">>, <<".log">>, <<".db">>, <<".sqlite">>, <<".swp">>, <<"~">>,
     <<".bak">>, <<".tmp">>, <<".pth">>, <<".onnx">>, <<".png">>, <<".jpg">>,
     <<".jpeg">>, <<".webp">>, <<".gif">>, <<".mp4">>, <<".mp3">>, <<".avi">>,
     <<".mov">>, <<".o">>, <<".a">>, <<".dll">>, <<".exe">>}

\* the patterns without a wildcard, and the pattern '.env*'
skip_names ==
    {<<".DS_Store">>, <<"Thumbs", ".db">>, <<".gitignore">>, <<".gitattributes">>,
     <<".gitmodules">>}
skip_prefixes == {<<".env">>}

\* lines 863-867
keep_extensions == {".py", ".txt", ".md", ".json", ".yaml", ".yml", ".html", ".js", ".css"}

\* line 832
max_file_size == 100 * 1024 * 1024

EndsWithToks(name, suf) ==
    Len(name) >= Len(suf) /\ SubSeq(name, Len(name) - Len(suf) + 1, Len(name)) = suf

StartsWithToks(name, pre) ==
    Len(name) >= Len(pre) /\ SubSeq(name, 1, Len(pre)) = pre

\* line 853: fnmatch of the file name against some pattern
MatchesSkipPattern(name) ==
    \/ \E suf \in skip_suffixes : EndsWithToks(name, suf)
    \/ name \in skip_names
    \/ \E pre \in skip_prefixes : StartsWithToks(name, pre)

\* lines 863-867: the name ends with an extension that is kept at any size
IsAlwaysKept(name) == \E ext \in keep_extensions : EndsWith(name, ext)

\* a ceiling that no file exceeds
ExceedsCeiling_Never(size) == FALSE

\* line 861
ExceedsCeiling(size) == size > max_file_size

\* the directories, the file names and the sizes of a plugin folder
PluginDirs == {<<>>, <<".git">>, <<"sub">>, <<"sub", "__pycache__">>, <<"sub", "lib">>}
PluginFileNames ==
    {<<"nodes", ".py">>, <<"weights", ".bin">>, <<"image", ".png">>, <<".env", ".local">>}
FileSizes == {1, max_file_size, max_file_size + 1}

\* a plugin folder holds at most this many files
MaxPluginFiles == 2

SourceFiles == [dir : PluginDirs, name : PluginFileNames, size : FileSizes]

\* a directory holds one file of a name
OnePerPath(tree) ==
    \A f, g \in tree : (f.dir = g.dir /\ f.name = g.name) => f = g

\* the names of the subdirectories of a directory of the tree
ChildDirs(tree, root) ==
    {f.dir[Len(root) + 1] : f \in {g \in tree : /\ Len(g.dir) > Len(root)
                                                 /\ SubSeq(g.dir, 1, Len(root)) = root}}

\* a directory of the path is one that os.walk was kept from
UnderSkippedDir(f) == \E i \in 1..Len(f.dir) : f.dir[i] \in skip_dirs

CopyInit ==
    /\ AsmIdle
    /\ ResIdle
    /\ LaterIdle("copy")
    /\ copy_pc = "walking"
    /\ src_tree \in {t \in SubsetsUpTo(SourceFiles, MaxPluginFiles) : OnePerPath(t)}
    /\ walk_stack = << <<>> >>
    /\ cur_root = <<>>
    /\ cur_files = <<>>
    /\ dst_tree = {}
    /\ copy_warned = {}

\* lines 835-847: os.walk yields the next directory, top-down; the directories
\* of skip_dirs are taken out of the list it descends into, the others are
\* visited in the order of the listing
NextDirectory ==
    /\ copy_pc = "walking"
    /\ cur_files = <<>>
    /\ walk_stack # <<>>
    /\ LET root == Head(walk_stack)
           kept == {d \in ChildDirs(src_tree, root) : d \notin skip_dirs}
       IN  /\ cur_root' = root
           /\ \E order \in Perms(kept) :
                 walk_stack' = [i \in 1..Len(order) |-> Append(root, order[i])]
                                  \o Tail(walk_stack)
           /\ cur_files' \in Perms({f \in src_tree : f.dir = root})
    /\ UNCHANGED <<copy_pc, src_tree, dst_tree, copy_warned>>
    /\ UNCHANGED nonCopyVars

\* lines 849-877, one file: the pattern test, the size test, the copy.  A file
\* whose size cannot be read cannot be copied either; shutil.copy2 returns, or
\* raises an error that is logged, or raises another one that ends the walk
CopyFile ==
    /\ copy_pc = "walking"
    /\ cur_files # <<>>
    /\ LET f == Head(cur_files)
       IN  IF MatchesSkipPattern(f.name)
           THEN UNCHANGED <<copy_pc, dst_tree, copy_warned>>
           ELSE \E sizeRead \in BOOLEAN :
                  IF sizeRead /\ ExceedsCeiling(f.size) /\ ~IsAlwaysKept(f.name)
                  THEN UNCHANGED <<copy_pc, dst_tree, copy_warned>>
                  ELSE \/ /\ sizeRead
                          /\ dst_tree' = dst_tree \cup {f}
                          /\ UNCHANGED <<copy_pc, copy_warned>>
                       \/ /\ copy_warned' = copy_warned \cup {f}
                          /\ UNCHANGED <<copy_pc, dst_tree>>
                       \/ /\ copy_pc' = "raised"
                          /\ UNCHANGED <<dst_tree, copy_warned>>
    /\ cur_files' = Tail(cur_files)
    /\ UNCHANGED <<src_tree, walk_stack, cur_root>>
    /\ UNCHANGED nonCopyVars

\* os.walk is exhausted: _copy_tree_filtered returns
FinishWalk ==
    /\ copy_pc = "walking"
    /\ cur_files = <<>>
    /\ walk_stack = <<>>
    /\ copy_pc' = "done"
    /\ UNCHANGED <<src_tree, walk_stack, cur_root, cur_files, dst_tree, copy_warned>>
    /\ UNCHANGED nonCopyVars

CopyNext == NextDirectory \/ CopyFile \/ FinishWalk

SpecCopy == CopyInit /\ [][CopyNext]_vars

\* the file is one the filter lets through
PassesFilter(f) ==
    /\ ~UnderSkippedDir(f)
    /\ ~MatchesSkipPattern(f.name)
    /\ (f.size > 100 * 1024 * 1024 => IsAlwaysKept(f.name))

\* C18 as stated: after the plugin is copied the destination holds no file
\* below a denylisted directory, none of a denylisted pattern and none above
\* 100 MiB but for the always-keep extensions, and holds every other file of
\* the plugin at its relative path.
C18_ExactlyTheFilteredFiles ==
    copy_pc = "done" => dst_tree = {f \in src_tree : PassesFilter(f)}

\* C18: after the plugin is copied the destination holds no file below a
\* denylisted directory, none of a denylisted pattern and none above 100 MiB
\* but for the always-keep extensions, and holds every other file of the plugin
\* at its relative path except those whose copy raised an error that was
\* logged and passed over.
C18_FilteredFilesButFailedCopies ==
    copy_pc = "done" =>
        /\ \A f \in dst_tree : f \in src_tree /\ PassesFilter(f)
        /\ \A f \in src_tree : (PassesFilter(f) /\ f \notin copy_warned) => f \in dst_tree

\* a file above the ceiling was kept for its extension beside one that was
\* passed over below a pruned directory
C18_Witness ==
    /\ copy_pc = "done"
    /\ \E f \in dst_tree : f.size > 100 * 1024 * 1024 /\ f.name = <<"nodes", ".py">>
    /\ \E f \in src_tree : f.dir = <<"sub", "__pycache__">> /\ f \notin dst_tree
    /\ copy_warned = {}

-----------------------------------------------------------------------------
(* RequirementsCollector, the plugin loop that feeds it, and the           *)
(* dependencies key of config.json                                         *)

\* the tokens of the requirement lines, in the order of their first characters
ReqTokOrder == <<" ", "#", ">=1", "\\", "c", "numpy", "scipy", "torch">>
TokRank(t) == CHOOSE i \in 1..Len(ReqTokOrder) : ReqTokOrder[i] = t

\* the order of Python strings on the lines
RECURSIVE LineLess(_, _)
LineLess(a, b) ==
    IF b = <<>> THEN FALSE
    ELSE IF a = <<>> THEN TRUE
    ELSE IF Head(a) = Head(b) THEN LineLess(Tail(a), Tail(b))
    ELSE TokRank(Head(a)) < TokRank(Head(b))

\* str.strip()
RECURSIVE LStrip(_)
LStrip(line) == IF line # <<>> /\ Head(line) = " " THEN LStrip(Tail(line)) ELSE line

RECURSIVE RStrip(_)
RStrip(line) ==
    IF line # <<>> /\ line[Len(line)] = " " THEN RStrip(SubSeq(line, 1, Len(line) - 1))
    ELSE line

Strip(line) == RStrip(LStrip(line))

\* line.split('#')[0]
RECURSIVE BeforeHash(_)
BeforeHash(line) ==
    IF line = <<>> \/ Head(line) = "#" THEN <<>>
    ELSE <<Head(line)>> \o BeforeHash(Tail(line))

\* a cleaning that leaves the comment on the line
WithoutComment_Kept(line) == line

\* lines 87-88: the line up to its first '#', stripped
WithoutComment(line) ==
    IF \E i \in 1..Len(line) : line[i] = "#" THEN Strip(BeforeHash(line)) ELSE line

\* lines 80-83: a line that ends with a backslash takes the next line of the
\* file, stripped, in place of the backslash; i is the line read last
RECURSIVE Continued(_, _, _)
Continued(lines, i, line) ==
    IF EndsWith(line, "\\")
    THEN Continued(lines, i + 1,
                   SubSeq(line, 1, Len(line) - 1)
                      \o (IF i + 1 <= Len(lines) THEN Strip(lines[i + 1]) ELSE <<>>))
    ELSE [line |-> line, last |-> i]

\* lines 71-95: the loop over the lines of an open file, from line i on
RECURSIVE CollectFrom(_, _, _)
CollectFrom(lines, i, reqs) ==
    IF i > Len(lines) THEN reqs
    ELSE LET line == Strip(lines[i])
         IN  IF line = <<>> \/ Head(line) = "#"
             THEN CollectFrom(lines, i + 1, reqs)
             ELSE LET c == Continued(lines, i, line)
                      cleaned == WithoutComment(c.line)
                  IN  CollectFrom(lines, c.last + 1,
                                  IF cleaned = <<>> THEN reqs ELSE reqs \cup {cleaned})

\* what a requirements file may hold
ReqFileLines(id) ==
    CASE id = "R1" -> << <<"torch">>, <<"#", " ", "c">>, <<>>,
                         <<" ", "numpy", " ", "#", " ", "c">> >>
      [] id = "R2" -> << <<"numpy">>, <<"torch">> >>
      [] id = "R3" -> << <<"#", "c">>, <<" ">> >>
      [] id = "R4" -> << <<"scipy", "\\">>, <<" ", ">=1">>, <<"torch">> >>

ReqFileIds == {"R1", "R2", "R3", "R4"}

\* the requirements of each of these files, read off by hand
ReqsByHand(id) ==
    CASE id = "R1" -> {<<"torch">>, <<"numpy">>}
      [] id = "R2" -> {<<"numpy">>, <<"torch">>}
      [] id = "R3" -> {}
      [] id = "R4" -> {<<"scipy", ">=1">>, <<"torch">>}

\* the plugin loop has at most this many plugins
MaxReqPlugins == 2

\* a plugin folder: whether its copy returns, and the requirements.txt in its
\* root and in a subdirectory, if any
ReqPluginFolders ==
    [copied : BOOLEAN, root : ReqFileIds \cup {"none"}, sub : ReqFileIds \cup {"none"}]

ReqPaths == (1..MaxReqPlugins) \X {"root", "sub"}

\* process_requirements_file(req_file) on the collector c
ProcessRequirementsFile(c, plugins, path) ==
    LET id == IF path[2] = "root" THEN plugins[path[1]].root ELSE plugins[path[1]].sub
    IN  IF id = "none" \/ path \in c.processed_files THEN c
        ELSE [requirements |-> CollectFrom(ReqFileLines(id), 1, c.requirements),
              processed_files |-> c.processed_files \cup {path},
              times_read |-> [c.times_read EXCEPT ![path] = @ + 1]]

\* process_node_directory(node_dir): the file of the root, then every file
\* os.walk comes by, the one of the root again among them
ProcessNodeDirectory(c, plugins, k) ==
    LET c1 == ProcessRequirementsFile(c, plugins, <<k, "root">>)
        c2 == ProcessRequirementsFile(c1, plugins, <<k, "root">>)
    IN  ProcessRequirementsFile(c2, plugins, <<k, "sub">>)

\* a set as a list, in some order
RECURSIVE SetToSeq(_)
SetToSeq(S) ==
    IF S = {} THEN <<>>
    ELSE LET x == CHOOSE x \in S : TRUE IN <<x>> \o SetToSeq(S \ {x})

\* get_requirements_list
GetRequirementsList(reqs) == SortSeq(SetToSeq(reqs), LineLess)

ReqInit ==
    /\ AsmIdle
    /\ ResIdle
    /\ LaterIdle("requirements")
    /\ req_pc = "loop"
    /\ req_plugins \in UNION {[1..n -> ReqPluginFolders] : n \in 0..MaxReqPlugins}
    /\ req_next = 1
    /\ requirements = {}
    /\ processed_files = {}
    /\ times_read = [path \in ReqPaths |-> 0]
    /\ package_config = [has_dependencies |-> FALSE]

\* create_package lines 310-324, one iteration: the requirements of a plugin
\* are collected when its copy returned; a copy that raises skips them
CollectFromPlugin ==
    /\ req_pc = "loop"
    /\ req_next <= Len(req_plugins)
    /\ LET c == [requirements |-> requirements, processed_files |-> processed_files,
                 times_read |-> times_read]
           d == IF req_plugins[req_next].copied
                THEN ProcessNodeDirectory(c, req_plugins, req_next)
                ELSE c
       IN  /\ requirements' = d.requirements
           /\ processed_files' = d.processed_files
           /\ times_read' = d.times_read
    /\ req_next' = req_next + 1
    /\ UNCHANGED <<req_pc, req_plugins, package_config>>
    /\ UNCHANGED nonReqVars

\* lines 433-435: the collector exists when the plugin list was not empty
WriteDependencies ==
    /\ req_pc = "loop"
    /\ req_next > Len(req_plugins)
    /\ package_config' =
          IF Len(req_plugins) > 0 /\ Cardinality(requirements) > 0
          THEN [has_dependencies |-> TRUE,
                dependencies |-> GetRequirementsList(requirements)]
          ELSE [has_dependencies |-> FALSE]
    /\ req_pc' = "written"
    /\ UNCHANGED <<req_plugins, req_next, requirements, processed_files, times_read>>
    /\ UNCHANGED nonReqVars

ReqNext == CollectFromPlugin \/ WriteDependencies

SpecReqs == ReqInit /\ [][ReqNext]_vars

\* the requirements files below the plugins whose copy returned
FilesOfCopied ==
    {path \in ReqPaths :
        /\ path[1] <= Len(req_plugins)
        /\ req_plugins[path[1]].copied
        /\ (IF path[2] = "root" THEN req_plugins[path[1]].root
            ELSE req_plugins[path[1]].sub) # "none"}

ReqsOfCopied ==
    UNION {ReqsByHand(IF path[2] = "root" THEN req_plugins[path[1]].root
                      ELSE req_plugins[path[1]].sub) : path \in FilesOfCopied}

\* C19: when config.json is written its dependencies are the requirement
\* lines of the requirements files below the plugins that were copied, blank
\* and comment lines dropped and trailing comments stripped, in ascending
\* order and each once; every such file was read once and no other file was
\* read; there is no dependencies key when no line was collected.
C19_DependenciesSortedUnion ==
    req_pc = "written" =>
        /\ package_config.has_dependencies = (ReqsOfCopied # {})
        /\ package_config.has_dependencies =>
              LET deps == package_config.dependencies
              IN  /\ {deps[i] : i \in 1..Len(deps)} = ReqsOfCopied
                  /\ \A i, j \in 1..Len(deps) : i < j => LineLess(deps[i], deps[j])
        /\ \A path \in ReqPaths :
              times_read[path] = IF path \in FilesOfCopied THEN 1 ELSE 0

\* two plugins copied, one not listed in file order and with a second file
\* that repeats a line, the other with a continued line
C19_Witness ==
    /\ req_pc = "written"
    /\ Len(req_plugins) = 2
    /\ req_plugins[1] = [copied |-> TRUE, root |-> "R1", sub |-> "R2"]
    /\ req_plugins[2] = [copied |-> TRUE, root |-> "R4", sub |-> "none"]
    /\ package_config.has_dependencies
    /\ package_config.dependencies = << <<"numpy">>, <<"scipy", ">=1">>, <<"torch">> >>

-----------------------------------------------------------------------------
(* The harvest of model references in the simplified parse_workflow *)

\* a widget value: a string, or a number, or a list that holds a string
StrValue(text) == [kind |-> "str", text |-> text]

WidgetValueUniverse ==
    {StrValue(<<"a", ".pt">>),
     StrValue(<<"ab", ".pt">>),
     StrValue(<<".ckpt">>),
     StrValue(<<"model", ".SAFETENSORS">>),
     StrValue(<<"styles", "/", "big", ".safetensors">>),
     StrValue(<<"model", ".txt">>),
     StrValue(<<"None">>),
     StrValue(<<>>),
     [kind |-> "int", text |-> <<>>],
     [kind |-> "list", text |-> <<"ab", ".pt">>]}

\* the values of the universe that are model references, read off by hand
ReferencesByHand ==
    {StrValue(<<"ab", ".pt">>),
     StrValue(<<".ckpt">>),
     StrValue(<<"model", ".SAFETENSORS">>),
     StrValue(<<"styles", "/", "big", ".safetensors">>)}

\* a workflow has at most this many nodes, a node this many widget values
MaxNodes == 3
MaxWidgets == 2

\* lines 196-210: the tests a widget value passes to be added
IsModelReference(value) ==
    /\ value.kind = "str"
    /\ value.text # <<>>
    /\ ~IsSentinel(value.text)
    /\ ~TooShort(value.text)
    /\ HasModelExtension(value.text)

ExtractInit ==
    /\ AsmIdle
    /\ ResIdle
    /\ LaterIdle("extract")
    /\ ext_pc = "nodes"
    /\ nodes_walked = 0
    /\ values_seen = {}
    /\ model_references_set = {}
    /\ references_result = <<>>

\* lines 171-210, one node with a list of widget values
ExtractFromNode ==
    /\ ext_pc = "nodes"
    /\ nodes_walked < MaxNodes
    /\ \E values \in UNION {[1..n -> WidgetValueUniverse] : n \in 0..MaxWidgets} :
          LET carried == {values[i] : i \in 1..Len(values)}
          IN  /\ values_seen' = values_seen \cup carried
              /\ model_references_set' =
                    model_references_set \cup {v \in carried : IsModelReference(v)}
    /\ nodes_walked' = nodes_walked + 1
    /\ UNCHANGED <<ext_pc, references_result>>
    /\ UNCHANGED nonExtVars

\* line 255: the set becomes a list, in no fixed order
ReturnReferences ==
    /\ ext_pc = "nodes"
    /\ references_result' \in Perms(model_references_set)
    /\ ext_pc' = "returned"
    /\ UNCHANGED <<nodes_walked, values_seen, model_references_set>>
    /\ UNCHANGED nonExtVars

ExtractNext == ExtractFromNode \/ ReturnReferences

SpecExtract == ExtractInit /\ [][ExtractNext]_vars

-----------------------------------------------------------------------------
(* The alternate categories of the resolver *)

\* stages 1-6 run for each alternate type in table order: the first result
RetryCascade(paths, fsys, rev, t, rq) ==
    LET alts == AlternateTypes(t)
    IN  FirstOf(Flatten([a \in 1..Len(alts) |->
                   IF alts[a] \in DOMAIN paths
                   THEN LET h == ResolveInDirs(paths[alts[a]], fsys, rev, rq)
                        IN  IF h.found THEN <<h>> ELSE <<>>
                   ELSE <<>>]))

\* C21: a request that stages 1-6 answer is answered by them; one they do not
\* answer gets what stages 1-6 return for the first alternate type, in table
\* order, for which they return a path.
C21_FallbackRetriesCascade ==
    resolveCount > 0 =>
        LET direct == ResolveInDirs(model_paths[reqType], fs, enumReversed, reqName)
        IN  lastResult = IF direct.found THEN direct
                         ELSE RetryCascade(model_paths, fs, enumReversed, reqType, reqName)

-----------------------------------------------------------------------------
(* The search-path tables: _load_model_paths (workflow_parser.py) and
   _get_model_search_paths (interactive_package_creator.py) *)

\* how many UI configurations the YAML file holds at most
MaxUiConfigs == 2
\* how many directories one key of a UI configuration names at most
MaxExtraPaths == 2

\* the directories the YAML file can name (joined with base_path already)
ExtraDirs == {"E1", "E2"}
\* the keys of a UI configuration besides base_path and is_default
ConfigKeys == {"checkpoints", "Loras"}

\* model_type.lower()
LowerKey(k) == IF k = "Loras" THEN "loras" ELSE k

\* the built-in tables (the categories the YAML keys can reach)
DefaultLoaded == [checkpoints |-> <<"models/checkpoints">>, loras |-> <<"models/loras">>]
DefaultSearch == [checkpoints |-> <<"models/checkpoints">>, loras |-> <<"models/loras">>]

\* the directory lists one key can carry: distinct directories, in order
PathLists ==
    {q \in SeqsUpTo(ExtraDirs, MaxExtraPaths) : \A i, j \in DOMAIN q : i # j => q[i] # q[j]}

\* the keys of one UI configuration, in file order, each with its directories
EntryLists ==
    {<<>>} \cup
    {q \in SeqsUpTo([key : ConfigKeys, paths : PathLists], Cardinality(ConfigKeys)) :
        \A i, j \in DOMAIN q : i # j => q[i].key # q[j].key}

\* base: "ok", "no_base_path" (the key is absent), "missing" (the directory is)
UiConfigs == [base : {"ok", "no_base_path", "missing"}, is_default : BOOLEAN, entries : EntryLists]

\* the loop over the paths of one key: insert(0, p) for the default UI, else append
RECURSIVE AddPaths(_, _, _)
AddPaths(list, paths, is_default) ==
    IF paths = <<>> THEN list
    ELSE AddPaths(IF is_default THEN <<Head(paths)>> \o list ELSE Append(list, Head(paths)),
                  Tail(paths), is_default)

\* the loop over the keys of one UI configuration in _load_model_paths
RECURSIVE LoadEntries(_, _, _)
LoadEntries(mp, entries, is_default) ==
    IF entries = <<>> THEN mp
    ELSE LET t == LowerKey(Head(entries).key)
             mp0 == IF t \in DOMAIN mp THEN mp ELSE mp @@ (t :> <<>>)
         IN  LoadEntries([mp0 EXCEPT ![t] = AddPaths(mp0[t], Head(entries).paths, is_default)],
                         Tail(entries), is_default)

\* _load_model_paths: a configuration without base_path, or whose base path
\* does not exist, is passed over
RECURSIVE LoadModelPathsFrom(_, _)
LoadModelPathsFrom(mp, data) ==
    IF data = <<>> THEN mp
    ELSE LoadModelPathsFrom(IF Head(data).base = "ok"
                            THEN LoadEntries(mp, Head(data).entries, Head(data).is_default)
                            ELSE mp,
                            Tail(data))

\* the loop over the keys of one UI configuration in _get_model_search_paths:
\* only known categories, always appended
RECURSIVE SearchEntries(_, _)
SearchEntries(sp, entries) ==
    IF entries = <<>> THEN sp
    ELSE LET t == LowerKey(Head(entries).key)
         IN  SearchEntries(IF t \in DOMAIN sp
                           THEN [sp EXCEPT ![t] = AddPaths(sp[t], Head(entries).paths, FALSE)]
                           ELSE sp,
                           Tail(entries))

\* _get_model_search_paths: only the presence of base_path is looked at
RECURSIVE GetModelSearchPathsFrom(_, _)
GetModelSearchPathsFrom(sp, data) ==
    IF data = <<>> THEN sp
    ELSE GetModelSearchPathsFrom(IF Head(data).base # "no_base_path"
                                 THEN SearchEntries(sp, Head(data).entries)
                                 ELSE sp,
                                 Tail(data))

PathsInit ==
    /\ AsmIdle
    /\ ResIdle
    /\ LaterIdle("paths")
    /\ paths_pc = "file"
    /\ yaml_data = <<>>
    /\ loaded_model_paths = <<>>
    /\ model_search_paths = <<>>

\* the YAML file holds one more UI configuration
WriteUiConfig ==
    /\ paths_pc = "file"
    /\ Len(yaml_data) < MaxUiConfigs
    /\ \E c \in UiConfigs : yaml_data' = Append(yaml_data, c)
    /\ UNCHANGED <<paths_pc, loaded_model_paths, model_search_paths>>
    /\ UNCHANGED nonPathsVars

\* WorkflowParser(comfyui_path): self.model_paths = self._load_model_paths()
LoadModelPaths ==
    /\ paths_pc = "file"
    /\ paths_pc' = "parser"
    /\ loaded_model_paths' = LoadModelPathsFrom(DefaultLoaded, yaml_data)
    /\ UNCHANGED <<yaml_data, model_search_paths>>
    /\ UNCHANGED nonPathsVars

\* self.model_search_paths = self._get_model_search_paths()
GetModelSearchPaths ==
    /\ paths_pc = "parser"
    /\ paths_pc' = "done"
    /\ model_search_paths' = GetModelSearchPathsFrom(DefaultSearch, yaml_data)
    /\ UNCHANGED <<yaml_data, loaded_model_paths>>
    /\ UNCHANGED nonPathsVars

PathsNext == WriteUiConfig \/ LoadModelPaths \/ GetModelSearchPaths

SpecPaths == PathsInit /\ [][PathsNext]_vars

\* the directories the YAML file supplies for category t, in file order
RECURSIVE Supplied(_, _)
Supplied(data, t) ==
    IF data = <<>> THEN <<>>
    ELSE LET es == Head(data).entries
             mine == [i \in DOMAIN es |->
                        IF Head(data).base = "ok" /\ LowerKey(es[i].key) = t
                        THEN es[i].paths ELSE <<>>]
         IN  Flatten(mine) \o Supplied(Tail(data), t)

\* C22: in both tables, the list of every category is the directories the
\* override file supplies for it, in the order supplied, and then the built-in
\* default directory.
C22_OverridesBeforeDefault ==
    paths_pc = "done" =>
        \A t \in DOMAIN DefaultLoaded :
            /\ loaded_model_paths[t] = Supplied(yaml_data, t) \o DefaultLoaded[t]
            /\ model_search_paths[t] = Supplied(yaml_data, t) \o DefaultSearch[t]

-----------------------------------------------------------------------------
(* ModelDownloader.download_model (model_downloader.py) *)

\* how often download_model is invoked for the entry
MaxInvocations == 2

\* max_retries of download_with_urllib
max_retries == 5

\* what the server can send, complete
Contents == {"c1", "c2"}
Absent == "absent"

\* hashlib.md5(...).hexdigest(): lower-case hexadecimal
Md5Hex(c) == IF c = "c1" THEN "aa" ELSE "bb"

\* str.lower() on the hash strings
LowerHex(h) == IF h = "AA" THEN "aa" ELSE IF h = "BB" THEN "bb" ELSE h

\* the hash key of a manifest entry
EntryHashes == {None, "aa", "AA", "bb"}

\* verify_hash: actual_hash.lower() == expected_hash.lower()
VerifyHash(content, expected) == LowerHex(Md5Hex(content)) = LowerHex(expected)

\* the existing file is never accepted
SkipsDownload_Never(dest, expected) == FALSE

\* lines 335-346: the file exists and, when a hash is given, has that hash
SkipsDownload(dest, expected) ==
    /\ dest # Absent
    /\ (expected # None => VerifyHash(dest, expected))

\* the wait grows by two seconds per retry
BackoffWait_Linear(k) == 2 * k

\* wait_time = 2 ** retry_count
BackoffWait(k) == 2 ^ k

\* the record of a returned invocation
Returned(res, fetched) ==
    [success |-> res, before |-> dest_before', after |-> dest_file',
     attempts |-> attempts', slept |-> slept', wrote |-> wrote_dest',
     retries |-> retry_count', fetched |-> fetched,
     method |-> IF fetched = "skipped" THEN "none"
                ELSE IF use_requests THEN "requests" ELSE "urllib"]

\* download_model returns res; fetched tells what the download method returned:
\* "ok" for True, "failed" for False, "skipped" when none was called
Return(res, fetched) ==
    /\ dl_pc' = "idle"
    /\ temp_file' = Absent
    /\ dl_history' = Append(dl_history, Returned(res, fetched))

DlInit ==
    /\ AsmIdle
    /\ ResIdle
    /\ LaterIdle("download")
    /\ dl_pc = "idle"
    /\ dest_file \in Contents \cup {Absent}
    /\ expected_hash \in EntryHashes
    /\ use_requests \in BOOLEAN
    /\ temp_file = Absent
    /\ retry_count = 0
    /\ attempts = 0
    /\ slept = <<>>
    /\ dest_before = dest_file
    /\ wrote_dest = FALSE
    /\ dl_history = <<>>

\* download_model is called: lines 331-346, up to the choice of the method
DownloadModel ==
    /\ dl_pc = "idle"
    /\ Len(dl_history) < MaxInvocations
    /\ dest_before' = dest_file
    /\ retry_count' = 0
    /\ attempts' = 0
    /\ slept' = <<>>
    /\ wrote_dest' = FALSE
    /\ UNCHANGED <<expected_hash, use_requests>>
    /\ IF SkipsDownload(dest_file, expected_hash)
       THEN /\ UNCHANGED dest_file
            /\ Return(TRUE, "skipped")
       ELSE /\ dl_pc' = "fetch"
            /\ UNCHANGED <<dest_file, temp_file, dl_history>>
    /\ UNCHANGED nonDlVars

\* download_with_requests up to the move: one GET, a status other than 200 or
\* an exception ends it with False
RequestsGet ==
    /\ dl_pc = "fetch"
    /\ use_requests
    /\ attempts' = attempts + 1
    /\ UNCHANGED <<dest_file, expected_hash, use_requests, retry_count, slept,
                   dest_before, wrote_dest>>
    /\ \E outcome \in {"ok", "status", "raised"} :
          IF outcome = "ok"
          THEN /\ \E c \in Contents : temp_file' = c
               /\ dl_pc' = "move"
               /\ UNCHANGED dl_history
          ELSE Return(FALSE, "failed")
    /\ UNCHANGED nonDlVars

\* one pass of the while loop of download_with_urllib
UrlopenAttempt ==
    /\ dl_pc = "fetch"
    /\ ~use_requests
    /\ retry_count < max_retries
    /\ attempts' = attempts + 1
    /\ UNCHANGED <<dest_file, expected_hash, use_requests, dest_before, wrote_dest>>
    /\ \E outcome \in {"ok", "transient", "raised"} :
          CASE outcome = "ok" ->
                 /\ \E c \in Contents : temp_file' = c
                 /\ dl_pc' = "move"
                 /\ UNCHANGED <<retry_count, slept, dl_history>>
            [] outcome = "transient" ->
                 /\ retry_count' = retry_count + 1
                 /\ IF retry_count + 1 < max_retries
                    THEN /\ slept' = Append(slept, BackoffWait(retry_count + 1))
                         /\ UNCHANGED <<dl_pc, temp_file, dl_history>>
                    ELSE /\ UNCHANGED slept
                         /\ Return(FALSE, "failed")
            [] OTHER ->
                 /\ UNCHANGED <<retry_count, slept>>
                 /\ Return(FALSE, "failed")
    /\ UNCHANGED nonDlVars

\* shutil.move(temp_file, dest_path) of either method; when it raises the
\* method returns False
MoveToDestination ==
    /\ dl_pc = "move"
    /\ UNCHANGED <<expected_hash, use_requests, retry_count, attempts, slept, dest_before>>
    /\ \E moved \in BOOLEAN :
          IF moved
          THEN /\ dest_file' = temp_file
               /\ wrote_dest' = TRUE
               /\ temp_file' = Absent
               /\ dl_pc' = "verify"
               /\ UNCHANGED dl_history
          ELSE /\ UNCHANGED <<dest_file, wrote_dest>>
               /\ Return(FALSE, "failed")
    /\ UNCHANGED nonDlVars

\* lines 354-359: the hash of the downloaded file decides the result
VerifyDownload ==
    /\ dl_pc = "verify"
    /\ UNCHANGED <<dest_file, expected_hash, use_requests, retry_count, attempts, slept,
                   dest_before, wrote_dest>>
    /\ Return(~(expected_hash # None /\ ~VerifyHash(dest_file, expected_hash)), "ok")
    /\ UNCHANGED nonDlVars

DlNext == DownloadModel \/ RequestsGet \/ UrlopenAttempt \/ MoveToDestination \/ VerifyDownload

SpecDownload == DlInit /\ [][DlNext]_vars

SpecDownloadLive == DlInit /\ [][DlNext]_vars /\ WF_vars(DlNext)

\* C23: an invocation of download_model that follows a successful one for the
\* same entry opens no URL, leaves the file at the destination as it is and
\* returns success as well.
C23_RepeatSkipsDownload ==
    \A i \in 2..Len(dl_history) :
        dl_history[i-1].success =>
            /\ dl_history[i].attempts = 0
            /\ dl_history[i].after = dl_history[i].before
            /\ dl_history[i].before = dl_history[i-1].after
            /\ dl_history[i].success

\* a download that succeeded with a hash to verify was invoked again
C23_Witness ==
    /\ Len(dl_history) = 2
    /\ expected_hash # None
    /\ dl_history[1].success
    /\ dl_history[1].wrote
    /\ dl_history[2].success

\* C24: for an entry with a hash, a returned download_model either reports
\* success with a file of that hash at the destination, or reports failure
\* and has left no file of its own at the destination.
C24_VerifiedOrNothingLeft ==
    expected_hash # None =>
        \A i \in DOMAIN dl_history :
            \/ /\ dl_history[i].success
               /\ dl_history[i].after # Absent
               /\ VerifyHash(dl_history[i].after, expected_hash)
            \/ /\ ~dl_history[i].success
               /\ ~dl_history[i].wrote

\* the waits of download_with_urllib, retry by retry
BackoffSchedule == <<2, 4, 8, 16>>

\* what C25 says of every state and of every returned invocation
C25_BoundedRetries ==
    ~use_requests =>
        /\ attempts <= 5
        /\ Len(slept) <= Len(BackoffSchedule)
        /\ slept = SubSeq(BackoffSchedule, 1, Len(slept))
        /\ dl_pc = "fetch" => Len(slept) = attempts
        /\ \A i \in DOMAIN dl_history :
              /\ dl_history[i].retries = 5 =>
                    (dl_history[i].attempts = 5 /\ ~dl_history[i].success)
              /\ dl_history[i].fetched = "failed" =>
                    (~dl_history[i].success /\ dl_history[i].after = dl_history[i].before)
              /\ dl_history[i].fetched = "ok" =>
                    (dl_history[i].retries < 5 /\ dl_history[i].after \in Contents)

-----------------------------------------------------------------------------
(* ModelDownloader.download_models_from_config with max_workers > 1 *)

\* how many entries external_models holds at most
MaxModels == 2
\* max_workers, the threads of the ThreadPoolExecutor
MaxWorkers == 2

\* the destinations process_model can compute for the entries
Destinations == {"P", "Q"}

\* an entry as process_model sees it, with what its URL serves: a complete
\* body, or "fail" when the download method returns False
ManifestEntries == [dest : Destinations, hash : {None, "aa"}, serves : Contents \cup {"fail"}]

Workers == 1..MaxWorkers

\* download_model run to its end on the files fl, alone
DownloadAlone(fl, e) ==
    IF SkipsDownload(fl[e.dest], e.hash) THEN [files |-> fl, success |-> TRUE]
    ELSE IF e.serves = "fail" THEN [files |-> fl, success |-> FALSE]
    ELSE [files |-> [fl EXCEPT ![e.dest] = e.serves],
          success |-> ~(e.hash # None /\ ~VerifyHash(e.serves, e.hash))]

\* lines 423-427: the entries processed one after the other, in manifest order
RECURSIVE ProcessSequentially(_, _, _)
ProcessSequentially(fl, models, results) ==
    IF models = <<>> THEN [files |-> fl, results |-> results]
    ELSE LET r == DownloadAlone(fl, Head(models))
         IN  ProcessSequentially(r.files, Tail(models), Append(results, r.success))

WkInit ==
    /\ AsmIdle
    /\ ResIdle
    /\ LaterIdle("workers")
    /\ wk_models \in SeqsUpTo(ManifestEntries, MaxModels)
    /\ wk_initial \in [Destinations -> Contents \cup {Absent}]
    /\ wk_files = wk_initial
    /\ wk_next = 1
    /\ wk_task = [w \in Workers |-> 0]
    /\ wk_pc = [w \in Workers |-> "free"]
    /\ wk_temp = [w \in Workers |-> Absent]
    /\ wk_results = [i \in DOMAIN wk_models |-> "pending"]
    /\ wk_return = "unset"

\* the thread is through with its entry
Finished(w, success) ==
    /\ wk_results' = [wk_results EXCEPT ![wk_task[w]] = IF success THEN "ok" ELSE "failed"]
    /\ wk_task' = [wk_task EXCEPT ![w] = 0]
    /\ wk_pc' = [wk_pc EXCEPT ![w] = "free"]
    /\ wk_temp' = [wk_temp EXCEPT ![w] = Absent]

\* executor.submit(self.process_model, ...): a free thread starts the next entry
StartProcessModel(w) ==
    /\ wk_pc[w] = "free"
    /\ wk_next \in DOMAIN wk_models
    /\ wk_task' = [wk_task EXCEPT ![w] = wk_next]
    /\ wk_next' = wk_next + 1
    /\ wk_pc' = [wk_pc EXCEPT ![w] = "check"]
    /\ UNCHANGED <<wk_models, wk_initial, wk_files, wk_temp, wk_results, wk_return>>
    /\ UNCHANGED nonWkVars

\* download_model lines 335-346 in thread w
CheckExisting(w) ==
    /\ wk_pc[w] = "check"
    /\ LET e == wk_models[wk_task[w]]
       IN  IF SkipsDownload(wk_files[e.dest], e.hash)
           THEN Finished(w, TRUE)
           ELSE /\ wk_pc' = [wk_pc EXCEPT ![w] = "fetch"]
                /\ UNCHANGED <<wk_task, wk_temp, wk_results>>
    /\ UNCHANGED <<wk_models, wk_initial, wk_files, wk_next, wk_return>>
    /\ UNCHANGED nonWkVars

\* the download method in thread w, up to the move: the body goes to the
\* thread's own temp_file
FetchToTemp(w) ==
    /\ wk_pc[w] = "fetch"
    /\ LET e == wk_models[wk_task[w]]
       IN  IF e.serves = "fail"
           THEN Finished(w, FALSE)
           ELSE /\ wk_temp' = [wk_temp EXCEPT ![w] = e.serves]
                /\ wk_pc' = [wk_pc EXCEPT ![w] = "move"]
                /\ UNCHANGED <<wk_task, wk_results>>
    /\ UNCHANGED <<wk_models, wk_initial, wk_files, wk_next, wk_return>>
    /\ UNCHANGED nonWkVars

\* shutil.move(temp_file, dest_path) in thread w
MoveInThread(w) ==
    /\ wk_pc[w] = "move"
    /\ wk_files' = [wk_files EXCEPT ![wk_models[wk_task[w]].dest] = wk_temp[w]]
    /\ wk_temp' = [wk_temp EXCEPT ![w] = Absent]
    /\ wk_pc' = [wk_pc EXCEPT ![w] = "verify"]
    /\ UNCHANGED <<wk_models, wk_initial, wk_next, wk_task, wk_results, wk_return>>
    /\ UNCHANGED nonWkVars

\* download_model lines 354-359 in thread w: the file now at dest_path is hashed
VerifyInThread(w) ==
    /\ wk_pc[w] = "verify"
    /\ LET e == wk_models[wk_task[w]]
       IN  Finished(w, ~(e.hash # None /\ ~VerifyHash(wk_files[e.dest], e.hash)))
    /\ UNCHANGED <<wk_models, wk_initial, wk_files, wk_next, wk_return>>
    /\ UNCHANGED nonWkVars

\* lines 419-438: every future has its result; the summary and the return
CollectResults ==
    /\ wk_return = "unset"
    /\ wk_models # <<>>
    /\ \A i \in DOMAIN wk_results : wk_results[i] # "pending"
    /\ wk_return' = IF \A i \in DOMAIN wk_results : wk_results[i] = "ok"
                    THEN "success" ELSE "failure"
    /\ UNCHANGED <<wk_models, wk_initial, wk_files, wk_next, wk_task, wk_pc, wk_temp,
                   wk_results>>
    /\ UNCHANGED nonWkVars

WkNext ==
    \/ \E w \in Workers : StartProcessModel(w)
    \/ \E w \in Workers : CheckExisting(w)
    \/ \E w \in Workers : FetchToTemp(w)
    \/ \E w \in Workers : MoveInThread(w)
    \/ \E w \in Workers : VerifyInThread(w)
    \/ CollectResults

SpecWorkers == WkInit /\ [][WkNext]_vars

\* C26: when download_models_from_config has returned, the result of every
\* entry and the file at every destination are those of processing the
\* entries one after the other in manifest order, and the return value is
\* success exactly when every entry succeeded.
C26_ThreadsAsSequential ==
    wk_return # "unset" =>
        LET seq == ProcessSequentially(wk_initial, wk_models, <<>>)
        IN  /\ \A i \in DOMAIN wk_models : (wk_results[i] = "ok") = seq.results[i]
            /\ wk_files = seq.files
            /\ (wk_return = "success") = (\A i \in DOMAIN wk_models : wk_results[i] = "ok")

-----------------------------------------------------------------------------
(* WorkflowParser._guess_model_type over a wider set of node types *)

\* how many words a node type is made of at most
MaxTypeWords == 3

\* the words node types are made of; no key of type_mapping occurs across the
\* border of two of them
TypeWords == {"VAE", "Lora", "Control", "Net", "Upscale", "Model", "Checkpoint", "Load",
              "er", "Sam"}

T_VAELoader == <<"VAE", "Load", "er">>
T_ControlNetLoader == <<"Control", "Net", "Load", "er">>
T_UpscaleModelLoader == <<"Upscale", "Model", "Load", "er">>

GuessInit ==
    /\ AsmIdle
    /\ ResIdle
    /\ LaterIdle("classify")
    /\ cls_pc = "node"
    /\ node_type \in SeqsUpTo(TypeWords, MaxTypeWords)
                     \cup {<<>>, T_ControlNetLoader, T_UpscaleModelLoader}
    /\ widgets_values = <<>>
    /\ value_idx = 0
    /\ model_type = None
    /\ found_models = {}
    /\ labelled = <<>>
    /\ resolved_models = {}

SpecGuess == GuessInit /\ [][GuessFromNode]_vars

\* the rules of type_mapping whose key occurs in the lower-cased node type
MatchingRules(ntype) ==
    {i \in 1..Len(type_mapping) : IsSubstring(type_mapping[i][1], Lower(ntype))}

\* C28: the type guessed from the node type is the category of the first rule
\* of the table whose key occurs in the lower-cased node type, and none when no
\* key occurs; a node type that contains load or model, VAELoader, LoraLoader,
\* ControlNetLoader and UpscaleModelLoader among them, gets checkpoints.
C28_FirstRuleWinsLoadersAreCheckpoints ==
    cls_pc = "values" =>
        /\ (MatchingRules(node_type) = {}) = (model_type = None)
        /\ \A i \in MatchingRules(node_type) :
              (\A j \in MatchingRules(node_type) : i <= j) => model_type = type_mapping[i][2]
        /\ (\E n \in DOMAIN node_type : node_type[n] \in {"Load", "Model"})
              => model_type = "checkpoints"
        /\ node_type \in {T_VAELoader, T_LoraLoader, T_ControlNetLoader, T_UpscaleModelLoader}
              => model_type = "checkpoints"

\* VAELoader got checkpoints from its node type
C28_Witness ==
    /\ cls_pc = "values"
    /\ node_type = T_VAELoader
    /\ model_type = "checkpoints"

-----------------------------------------------------------------------------
(* The node array of parse_workflow, element by element
   (simplified_workflow_parser.py lines 163-263) *)

\* how many elements the node array has at most
MaxArray == 2

\* the shapes a field of a node can have
FieldAbsent == [shape |-> "absent"]
FieldOdd == [shape |-> "odd"]
StrField(text) == [shape |-> "str", text |-> text]
DictField(id) == [shape |-> "dict", cnr_id |-> id]
ListField(values) == [shape |-> "list", values |-> values]

\* an element that is not a dict, and the dicts: type absent, a string or a
\* number; properties absent, a dict or a string; widgets_values absent, a
\* list or a string
NotADict == [kind |-> "other"]
NodeDicts ==
    [kind : {"dict"},
     type : {FieldAbsent, FieldOdd, StrField(<<"Note">>), StrField(<<"pack", "_", "node">>)},
     properties : {FieldAbsent, FieldOdd, DictField(<<"Pack">>)},
     widgets_values : {FieldAbsent, FieldOdd, ListField(<<StrValue(<<"ab", ".pt">>)>>)}]
NodeShapes == {NotADict} \cup NodeDicts

\* line 217: node types taken for core ComfyUI
basic_node_types == {<<"note">>, <<"reroute">>, <<"primitive">>, <<"output">>, <<"input">>}

\* lines 213-232: the identifiers made from one node type
TypeIds(t) ==
    LET us == {i \in 1..Len(t) : t[i] = "_"}
        u1 == CHOOSE i \in us : \A j \in us : i <= j
        u2 == CHOOSE i \in us \ {u1} : \A j \in us \ {u1} : i <= j
    IN  IF t \in basic_node_types THEN {}
        ELSE {t}
             \cup (IF us # {}
                   THEN {SubSeq(t, 1, u1 - 1), SubSeq(t, 1, u1 - 1) \o <<"/">> \o t}
                   ELSE {})
             \cup (IF Cardinality(us) >= 2
                   THEN {SubSeq(t, 1, u2 - 1), SubSeq(t, 1, u2 - 1) \o <<"/">> \o t}
                   ELSE {})

\* line 177: node['type'].lower() raises when the value is not a string
TypeRaises(node) == node.kind = "dict" /\ node.type.shape = "odd"

\* lines 176-177
TypesOfNode(node) ==
    IF node.kind = "dict" /\ node.type.shape = "str" THEN {Lower(node.type.text)} ELSE {}

\* lines 180-188
IdsOfNode(node) ==
    IF node.kind = "dict" /\ node.properties.shape = "dict"
    THEN {Lower(node.properties.cnr_id)} ELSE {}

\* lines 191-210
RefsOfNode(node) ==
    IF node.kind = "dict" /\ node.widgets_values.shape = "list"
    THEN {node.widgets_values.values[i] : i \in {j \in 1..Len(node.widgets_values.values) :
                                              IsModelReference(node.widgets_values.values[j])}}
    ELSE {}

\* lines 128-131: the result parse_workflow starts with
EmptyExtraction == [returned |-> TRUE, custom_node_ids |-> {}, model_references |-> {}]

NdInit ==
    /\ AsmIdle
    /\ ResIdle
    /\ LaterIdle("nodes")
    /\ nd_pc = "loop"
    /\ nd_nodes \in SeqsUpTo(NodeShapes, MaxArray)
    /\ nd_idx = 0
    /\ nd_types = {}
    /\ nd_ids = {}
    /\ nd_refs = {}
    /\ nd_result = [returned |-> FALSE]

\* lines 171-210: one element of the array; an exception ends parse_workflow
\* in the handler of lines 259-263, which returns the result as it began
ProcessNode ==
    /\ nd_pc = "loop"
    /\ nd_idx < Len(nd_nodes)
    /\ nd_idx' = nd_idx + 1
    /\ LET node == nd_nodes[nd_idx + 1]
       IN  IF TypeRaises(node)
           THEN /\ nd_pc' = "returned"
                /\ nd_result' = EmptyExtraction
                /\ UNCHANGED <<nd_types, nd_ids, nd_refs>>
           ELSE /\ nd_types' = nd_types \cup TypesOfNode(node)
                /\ nd_ids' = nd_ids \cup IdsOfNode(node)
                /\ nd_refs' = nd_refs \cup RefsOfNode(node)
                /\ UNCHANGED <<nd_pc, nd_result>>
    /\ UNCHANGED nd_nodes
    /\ UNCHANGED nonNdVars

\* lines 212-257: the identifiers of the node types are added and the result
\* is returned
ReturnExtraction ==
    /\ nd_pc = "loop"
    /\ nd_idx = Len(nd_nodes)
    /\ nd_pc' = "returned"
    /\ nd_result' = [returned |-> TRUE,
                     custom_node_ids |-> nd_ids \cup UNION {TypeIds(t) : t \in nd_types},
                     model_references |-> nd_refs]
    /\ UNCHANGED <<nd_nodes, nd_idx, nd_types, nd_ids, nd_refs>>
    /\ UNCHANGED nonNdVars

NdNext == ProcessNode \/ ReturnExtraction

SpecNodes == NdInit /\ [][NdNext]_vars

\* a node none of whose fields has an unexpected shape
WellFormed(node) ==
    /\ node.kind = "dict"
    /\ node.type.shape # "odd"
    /\ node.properties.shape # "odd"
    /\ node.widgets_values.shape # "odd"

\* what the well-formed nodes of an array carry
CarriedByWellFormed(nodes) ==
    LET good == {i \in 1..Len(nodes) : WellFormed(nodes[i])}
    IN  [returned |-> TRUE,
         custom_node_ids |-> UNION {IdsOfNode(nodes[i]) : i \in good}
                             \cup UNION {TypeIds(t) : t \in UNION {TypesOfNode(nodes[i]) : i \in good}},
         model_references |-> UNION {RefsOfNode(nodes[i]) : i \in good}]

\* C29: the identifiers and the references parse_workflow returns are those
\* the well-formed nodes of the array carry, whatever malformed elements stand
\* among them.
C29_MalformedNodesSkipped ==
    nd_pc = "returned" => nd_result = CarriedByWellFormed(nd_nodes)

-----------------------------------------------------------------------------
(* Where a model goes: create_package (interactive_package_creator.py lines
   353-364, 394-401) and process_model (model_downloader.py lines 361-382) *)

\* how many path tokens a model reference has at most
MaxRefTokens == 4

\* a path is a sequence of tokens; "/" is the separator of os.path, "\\" a
\* character like any other
RefTokens == {"styles", "sub", "\\", "/", "big.safetensors"}

\* the references: they name a file
ModelNames ==
    {n \in SeqsUpTo(RefTokens, MaxRefTokens) : n[Len(n)] = "big.safetensors"}

\* the index of the last separator, 0 when there is none
LastSep(p) ==
    LET seps == {i \in 1..Len(p) : p[i] = "/"}
    IN  IF seps = {} THEN 0 ELSE CHOOSE i \in seps : \A j \in seps : j <= i

\* str.rstrip('/')
RECURSIVE RStripSep(_)
RStripSep(p) ==
    IF p # <<>> /\ p[Len(p)] = "/" THEN RStripSep(SubSeq(p, 1, Len(p) - 1)) ELSE p

\* os.path.basename
OsBasename(p) == SubSeq(p, LastSep(p) + 1, Len(p))

\* os.path.dirname: the head up to the last separator, trailing separators
\* stripped unless it consists of separators only
OsDirname(p) ==
    LET head == SubSeq(p, 1, LastSep(p))
    IN  IF head # <<>> /\ RStripSep(head) # <<>> THEN RStripSep(head) ELSE head

\* os.path.join(a, b)
OsJoin(a, b) ==
    IF b # <<>> /\ b[1] = "/" THEN b
    ELSE IF a = <<>> \/ a[Len(a)] = "/" THEN a \o b
    ELSE a \o <<"/">> \o b

\* '/' in model_name or '\\' in model_name
HasSubpath(n) == \E i \in 1..Len(n) : n[i] \in {"/", "\\"}

\* lines 353-364: dest_path, below temp_dir
InlineDestination(n, t) ==
    LET dest_dir == OsJoin(OsJoin(<<>>, <<"models">>), <<t>>)
        rel_path == IF HasSubpath(n) THEN n ELSE OsBasename(n)
        dir2 == IF HasSubpath(n) THEN OsJoin(dest_dir, OsDirname(n)) ELSE dest_dir
    IN  OsJoin(dir2, OsBasename(rel_path))

\* lines 394-401: name, type and path of the external_models entry
DeferredEntry(n, t) ==
    [written |-> TRUE,
     name |-> OsBasename(n),
     type |-> t,
     path |-> IF HasSubpath(n) THEN [null |-> FALSE, text |-> n] ELSE [null |-> TRUE]]

\* a destination that ignores the directory part of path
DownloadDestination_Flat(e) ==
    OsJoin(OsJoin(<<"models">>, <<e.type>>),
           IF ~e.path.null /\ e.path.text # <<>> THEN OsBasename(e.path.text) ELSE e.name)

\* process_model lines 374-380: dest_path, below base_dir
DownloadDestination(e) ==
    LET models_type == OsJoin(<<"models">>, <<e.type>>)
        path_component == IF e.path.null THEN <<>> ELSE e.path.text
        dest_dir == IF path_component # <<>> /\ OsDirname(path_component) # <<>>
                    THEN OsJoin(models_type, OsDirname(path_component))
                    ELSE models_type
    IN  OsJoin(dest_dir, IF path_component # <<>> THEN OsBasename(path_component) ELSE e.name)

DpInit ==
    /\ AsmIdle
    /\ ResIdle
    /\ LaterIdle("dest")
    /\ dp_pc = "packager"
    /\ dp_model_name \in ModelNames
    /\ dp_model_type \in TypeSet
    /\ dp_inline_path = <<>>
    /\ dp_entry = [written |-> FALSE]
    /\ dp_download_path = <<>>

\* create_package, one model: where it would be copied, and its entry
PlaceOrDefer ==
    /\ dp_pc = "packager"
    /\ dp_inline_path' = InlineDestination(dp_model_name, dp_model_type)
    /\ dp_entry' = DeferredEntry(dp_model_name, dp_model_type)
    /\ dp_pc' = "downloader"
    /\ UNCHANGED <<dp_model_name, dp_model_type, dp_download_path>>
    /\ UNCHANGED nonDpVars

\* process_model on the entry read back from config.json
ProcessModel ==
    /\ dp_pc = "downloader"
    /\ dp_download_path' = DownloadDestination(dp_entry)
    /\ dp_pc' = "done"
    /\ UNCHANGED <<dp_model_name, dp_model_type, dp_inline_path, dp_entry>>
    /\ UNCHANGED nonDpVars

DpNext == PlaceOrDefer \/ ProcessModel

SpecDest == DpInit /\ [][DpNext]_vars

\* C30: the path process_model computes below the ComfyUI directory for a
\* deferred entry is the path below the package directory at which
\* create_package places the same model when it is included, for references
\* with and without a subpath; without a subpath that is models/type/name.
C30_DeferredLandsWhereInlineWould ==
    dp_pc = "done" =>
        /\ dp_download_path = dp_inline_path
        /\ dp_entry.path.null =>
              dp_download_path = <<"models", "/", dp_model_type, "/">> \o dp_model_name

\* styles/big.safetensors goes to models/loras/styles/big.safetensors
C30_Witness ==
    /\ dp_pc = "done"
    /\ dp_model_name = <<"styles", "/", "big.safetensors">>
    /\ dp_model_type = "loras"
    /\ dp_download_path = <<"models", "/", "loras", "/", "styles", "/", "big.safetensors">>

=============================================================================
